---- MODULE Spec2Model ----
(***************************************************************************)
(* Model of the rhiza DAG ledger (rhiza-core/src/dag/vertex.rs) and of the *)
(* read-only consensus observers over it (consensus/weight.rs,             *)
(* consensus/finality.rs).                                                 *)
(*                                                                         *)
(* A Hash is modelled as a natural number; 0 is Hash::zero().  Transaction *)
(* ids are BLAKE3 digests of the signed payload, which contains the two    *)
(* parent digests (Transaction::new), so a transaction can only name       *)
(* transactions that were created before it.  Ids are numbered in creation *)
(* order: the parents of transaction i are drawn from 0..i-1.  Creation    *)
(* order is not insertion order: a transaction may reach Dag::insert       *)
(* before the transactions it names.                                       *)
(***************************************************************************)
EXTENDS Integers, Sequences, FiniteSets, TLC

\* vertices, children, tips, genesis_id: the fields of Dag (vertex.rs:46-55).
\* relay_tracker: the RelayTracker (relay.rs:55-62).
\* result: what the last call returned.
\* mutex: the request holding the Mutex around the NodeState (api.rs:12).
\* handlers: the requests received by the API server, each with its
\* position in its handler, its locals and its response.
\* walk: the locals of the update_weights call in progress, when the
\* call is followed iteration by iteration.
VARIABLES vertices, children, tips, genesis_id, relay_tracker, result,
          mutex, handlers, walk

vars == <<vertices, children, tips, genesis_id, relay_tracker, result,
          mutex, handlers, walk>>

\* ---- bounds ----
\* Number of transactions ever created.
MaxId == 4
\* Length of the chain grown from a genesis.
MaxChain == 12
\* Number of vertices of the ledger of a node.
MaxLedger == 3
\* Transactions created, and the greatest depth passed to DagVertex::new,
\* where vertices are inserted at a depth of the caller's choice.
MaxTipId == 3
MaxDepth == 1
\* Relay tracker: a participant is followed from RelayWindow relays before
\* a multiple of RELAY_HALVING_INTERVAL to RelayWindow relays after it, up to
\* the multiple MaxBlocks, and the rewards issued start up to NearCap half
\* rewards below MAX_SUPPLY.
\* API server: the requests received in one run.
\* Identifiers of the transactions handed to Dag::insert with an id field
\* that need not be the digest of their payload.
\* The vertices of the ledger of a node that moves its whole balance.
MaxSupplyLedger == 7
MaxRequests == 2
\* The vertices a node's ledger holds at most while its calls are followed.
MaxNodeLedger == 4
RelayWindow == 2
MaxBlocks == 2
NearCap == 3
\* Number of Dag::insert calls that may fail after the parent loop has
\* already registered a child link.
MaxFailedLinks == 1
\* The readings of the millisecond clock that one run sees.
MaxClock == 2

\* ---- protocol constants (rhiza-core/src/lib.rs) ----
FINALITY_THRESHOLD == 10

Zero == 0
None == -1

\* The Mutex around the NodeState held by no request.
Unlocked == 0

\* No update_weights call is being followed.
NoWalk == [id |-> Zero, stack |-> <<>>, visited |-> {}, expansions |-> <<>>]

Ids == 1..MaxId
\* What chrono::Utc::now().timestamp_millis() can return to a caller.
Timestamps == 1..MaxClock

is_zero(h) == h = Zero

\* ---- amounts ----
\* rhiza-core/src/lib.rs
UNITS_PER_RHZ == 100000000

\* An amount (u64 in the program, i128 inside get_balance) is written in
\* base UNITS_PER_RHZ as <<hi, mid, lo>>, value hi * 10^16 + mid * 10^8 + lo
\* with 0 <= mid, lo < 10^8; a negative value has hi < 0.
BigNorm(hi, mid, lo) ==
    LET m == mid + (lo \div UNITS_PER_RHZ)
    IN <<hi + (m \div UNITS_PER_RHZ), m % UNITS_PER_RHZ, lo % UNITS_PER_RHZ>>

\* A value below 2^31 as an amount.
Big(n) == BigNorm(0, 0, n)

BigAdd(a, b) == BigNorm(a[1] + b[1], a[2] + b[2], a[3] + b[3])

BigSub(a, b) == BigNorm(a[1] - b[1], a[2] - b[2], a[3] - b[3])

BigLt(a, b) ==
    \/ a[1] < b[1]
    \/ a[1] = b[1] /\ a[2] < b[2]
    \/ a[1] = b[1] /\ a[2] = b[2] /\ a[3] < b[3]

BigLe(a, b) == a = b \/ BigLt(a, b)

BigZero == <<0, 0, 0>>

\* 2^64 = 18446744073709551616
TwoPow64 == <<1844, 67440737, 9551616>>

\* u64::MAX
U64_MAX == BigSub(TwoPow64, Big(1))

\* `x as u64` of a non-negative i128 (the value modulo 2^64).
RECURSIVE AsU64(_)
AsU64(x) == IF BigLt(x, TwoPow64) THEN x ELSE AsU64(BigSub(x, TwoPow64))

\* rhiza-core/src/lib.rs: 21_000_000 * UNITS_PER_RHZ
MAX_SUPPLY == <<0, 21000000, 0>>

BASE_RELAY_REWARD == 1000000

RELAY_HALVING_INTERVAL == 1000

\* ---- keys (crypto/keys.rs) ----
\* A key pair is named by its public key.
Keys == {"K1", "K2"}

\* Ed25519 is modelled symbolically: a signature is the pair of the signing
\* key and the signed bytes, and verifies against exactly that pair.
Sign(keypair, bytes) == [signer |-> keypair, bytes |-> bytes]

Verify(public_key, bytes, signature) ==
    signature.signer = public_key /\ signature.bytes = bytes

\* Transaction::new restricted to the fields the ledger reads.
Transaction(id, p1, p2) == [id |-> id, data |-> [parents |-> <<p1, p2>>]]

\* Transactions whose id is not taken from the payload: a payload can name
\* any id, its own included.
Transactions_IdNotOfPayload ==
    {Transaction(id, p1, p2) : id \in Ids, p1 \in 0..MaxId, p2 \in 0..MaxId}

\* Every transaction that can be created: the id is the digest of the
\* payload (Hash::digest of the signing bytes, which hold the parents), so
\* a payload names only transactions created before it, or the zero digest.
Transactions ==
    UNION {{Transaction(id, p1, p2) : p1 \in 0..(id - 1), p2 \in 0..(id - 1)} : id \in Ids}

\* DagVertex::new
DagVertexNew(transaction, depth) ==
    [transaction |-> transaction, cumulative_weight |-> 1, own_weight |-> 1,
     is_final |-> FALSE, depth |-> depth]

parents(vertex) == vertex.transaction.data.parents

\* Dag::new
DagNew == [vertices |-> <<>>, children |-> <<>>, tips |-> <<>>, genesis_id |-> None]

contains_key(map, k) == k \in DOMAIN map

\* HashMap::insert / entry().or_default()
MapPut(map, k, v) == [x \in (DOMAIN map) \cup {k} |-> IF x = k THEN v ELSE map[x]]

\* Vec::retain(|t| t != parent)
Retain(seq, parent) == SelectSeq(seq, LAMBDA t : t # parent)

\* The finality test of update_weights (vertex.rs:175).
ReachedFinality_Strict(w) == w > FINALITY_THRESHOLD

ReachedFinality(w) == w >= FINALITY_THRESHOLD

\* One parent of the loop body of update_weights (vertex.rs:171-180):
\* the parent's weight is incremented, and the finality flag set, each time
\* the parent is named by an expanded vertex.
BumpParent(vs, parent) ==
    IF is_zero(parent) \/ ~contains_key(vs, parent) THEN vs
    ELSE LET w == vs[parent].cumulative_weight + 1
         IN [vs EXCEPT ![parent] =
                [@ EXCEPT !.cumulative_weight = w,
                          !.is_final = IF ReachedFinality(w) THEN TRUE ELSE @]]

PushParent(stack, parent) == IF is_zero(parent) THEN stack ELSE Append(stack, parent)

\* The while loop of Dag::update_weights: explicit stack and visited set.
RECURSIVE update_weights_loop(_, _, _)
update_weights_loop(vs, stack, visited) ==
    IF stack = <<>> THEN vs
    ELSE LET id == stack[Len(stack)]
             rest == SubSeq(stack, 1, Len(stack) - 1)
         IN IF id \in visited THEN update_weights_loop(vs, rest, visited)
            ELSE IF ~contains_key(vs, id)
                 THEN update_weights_loop(vs, rest, visited \cup {id})
                 ELSE LET ps == parents(vs[id])
                          vs1 == BumpParent(vs, ps[1])
                          st1 == PushParent(rest, ps[1])
                          vs2 == BumpParent(vs1, ps[2])
                          st2 == PushParent(st1, ps[2])
                      IN update_weights_loop(vs2, st2, visited \cup {id})

\* update_weights that credits only the two named parents.
update_weights_DirectOnly(vs, new_vertex_id) ==
    BumpParent(BumpParent(vs, parents(vs[new_vertex_id])[1]),
               parents(vs[new_vertex_id])[2])

update_weights(vs, new_vertex_id) == update_weights_loop(vs, <<new_vertex_id>>, {})

\* One iteration of the parent loop of Dag::insert (vertex.rs:79-91) applied
\* to the running state st = [dag, err]; once err is set the loop has returned.
InsertParentStep(st, id, parent) ==
    IF st.err # "Ok" THEN st
    ELSE IF ~contains_key(st.dag.vertices, parent)
         THEN [st EXCEPT !.err = "MissingParent"]
         ELSE [st EXCEPT
                 !.dag.children =
                     MapPut(@, parent,
                            Append(IF contains_key(@, parent) THEN @[parent] ELSE <<>>, id)),
                 !.dag.tips = Retain(@, parent)]

\* The parent loop of Dag::insert, entered only when the first parent is
\* not the zero digest (vertex.rs:78-92).
InsertParents(dag, vertex) ==
    LET id == vertex.transaction.id
        ps == parents(vertex)
        st0 == [dag |-> dag, err |-> "Ok"]
    IN IF ~is_zero(ps[1])
       THEN InsertParentStep(InsertParentStep(st0, id, ps[1]), id, ps[2])
       ELSE st0

\* The tail of Dag::insert after the parent loop (vertex.rs:94-107): genesis
\* tracking, the new tip, the vertex map and weight propagation.
InsertVertex(d, vertex) ==
    LET id == vertex.transaction.id
        gid == IF is_zero(parents(vertex)[1]) /\ d.genesis_id = None
               THEN id ELSE d.genesis_id
        vs == MapPut(d.vertices, id, vertex)
    IN [vertices |-> update_weights(vs, id),
        children |-> d.children,
        tips |-> Append(d.tips, id),
        genesis_id |-> gid]

\* The duplicate check of Dag::insert (vertex.rs:73-75).
IsDuplicate_Never(dag, id) == FALSE

IsDuplicate(dag, id) == contains_key(dag.vertices, id)

\* Dag::insert with the duplicate check made after the parent loop.
DagInsert_LateDuplicateCheck(dag, vertex) ==
    LET st == InsertParents(dag, vertex)
    IN IF st.err # "Ok" THEN st
       ELSE IF IsDuplicate(dag, vertex.transaction.id)
            THEN [dag |-> st.dag, err |-> "DuplicateTransaction"]
            ELSE [dag |-> InsertVertex(st.dag, vertex), err |-> "Ok"]

\* Dag::insert: returns the ledger after the call and the call's result.
DagInsert(dag, vertex) ==
    IF IsDuplicate(dag, vertex.transaction.id)
    THEN [dag |-> dag, err |-> "DuplicateTransaction"]
    ELSE LET st == InsertParents(dag, vertex)
         IN IF st.err # "Ok" THEN st
            ELSE [dag |-> InsertVertex(st.dag, vertex), err |-> "Ok"]

\* The ledger held in the variables.
Ledger == [vertices |-> vertices, children |-> children, tips |-> tips,
           genesis_id |-> genesis_id]

\* Set maximum, 0 for the empty set (Iterator::max().unwrap_or(0)).
MaxOr0(S) == IF S = {} THEN 0 ELSE CHOOSE m \in S : \A x \in S : x <= m

\* Dag::depth
DagDepth(dag) == MaxOr0({dag.vertices[i].depth : i \in DOMAIN dag.vertices})

\* The depth process_transaction, send and claim_relay_reward pass to
\* DagVertex::new: `let depth = self.dag.depth() + 1;`, which is 1 on an
\* empty ledger.
CallerDepth(dag) == DagDepth(dag) + 1

RECURSIVE SumLen(_, _)
SumLen(f, S) ==
    IF S = {} THEN 0
    ELSE LET k == CHOOSE x \in S : TRUE IN Len(f[k]) + SumLen(f, S \ {k})

\* Child links that belong to no stored vertex: each stored vertex with a
\* non-zero first parent registered exactly two links.
FailedLinks(d) ==
    SumLen(d.children, DOMAIN d.children)
      - 2 * Cardinality({i \in DOMAIN d.vertices : ~is_zero(parents(d.vertices[i])[1])})

\* RelayTracker::new
RelayTrackerNew ==
    [relay_counts |-> <<>>, total_relays |-> 0, total_rewards_distributed |-> BigZero]

Init ==
    /\ vertices = DagNew.vertices
    /\ children = DagNew.children
    /\ tips = DagNew.tips
    /\ genesis_id = DagNew.genesis_id
    /\ relay_tracker = RelayTrackerNew
    /\ result = [id |-> Zero, err |-> "None"]
    /\ mutex = Unlocked
    /\ handlers = <<>>
    /\ walk = NoWalk

\* A call dag.insert(DagVertex::new(tx, depth)); the call is left out once
\* its failed child links would exceed MaxFailedLinks.
Insert(tx, depth) ==
    \E r \in {DagInsert(Ledger, DagVertexNew(tx, depth))} :
          /\ FailedLinks(r.dag) <= MaxFailedLinks
          /\ vertices' = r.dag.vertices
          /\ children' = r.dag.children
          /\ tips' = r.dag.tips
          /\ genesis_id' = r.dag.genesis_id
          /\ result' = [id |-> tx.id, err |-> r.err]
          /\ UNCHANGED <<relay_tracker, mutex, handlers, walk>>

\* The depths the callers of Dag::insert hand to DagVertex::new: the
\* literal 0 for the first vertex of a ledger (vertex.rs:238, main.rs:71)
\* and dag.depth() + 1 on any ledger (main.rs:103).
DepthsPassed(dag) ==
    IF DOMAIN dag.vertices = {} THEN {0, CallerDepth(dag)} ELSE {CallerDepth(dag)}

Next == \E tx \in Transactions, depth \in DepthsPassed(Ledger) : Insert(tx, depth)

Spec == Init /\ [][Next]_vars

\* ---- read-only observers ----

\* Dag::get(id).is_some()
DagGet(dag, id) == contains_key(dag.vertices, id)

\* Dag::transaction_ids
transaction_ids(dag) == DOMAIN dag.vertices

\* Dag::len
DagLen(dag) == Cardinality(DOMAIN dag.vertices)

\* Vec::push of the non-zero parents of v (weight.rs:37-41).
RECURSIVE PushParents(_, _, _)
PushParents(stack, ps, i) ==
    IF i > Len(ps) THEN stack
    ELSE PushParents(PushParent(stack, ps[i]), ps, i + 1)

\* The inner loop written the way update_weights is: a vertex is counted
\* each time it is popped, before the visited test.
RECURSIVE audit_walk_PerPath(_, _, _, _, _)
audit_walk_PerPath(dag, id, weights, stack, visited) ==
    IF stack = <<>> THEN weights
    ELSE LET current == stack[Len(stack)]
             rest == SubSeq(stack, 1, Len(stack) - 1)
             w1 == IF current # id /\ contains_key(weights, current)
                   THEN [weights EXCEPT ![current] = @ + 1]
                   ELSE weights
         IN IF current \in visited THEN audit_walk_PerPath(dag, id, w1, rest, visited)
            ELSE LET st1 == IF DagGet(dag, current)
                            THEN PushParents(rest, parents(dag.vertices[current]), 1)
                            ELSE rest
                 IN audit_walk_PerPath(dag, id, w1, st1, visited \cup {current})

\* The inner while loop of calculate_all_weights for one source vertex id.
RECURSIVE audit_walk(_, _, _, _, _)
audit_walk(dag, id, weights, stack, visited) ==
    IF stack = <<>> THEN weights
    ELSE LET current == stack[Len(stack)]
             rest == SubSeq(stack, 1, Len(stack) - 1)
         IN IF current \in visited THEN audit_walk(dag, id, weights, rest, visited)
            ELSE LET w1 == IF current # id /\ contains_key(weights, current)
                           THEN [weights EXCEPT ![current] = @ + 1]
                           ELSE weights
                     st1 == IF DagGet(dag, current)
                            THEN PushParents(rest, parents(dag.vertices[current]), 1)
                            ELSE rest
                 IN audit_walk(dag, id, w1, st1, visited \cup {current})

\* The outer loop of calculate_all_weights over dag.transaction_ids().
RECURSIVE audit_all(_, _, _)
audit_all(dag, weights, todo) ==
    IF todo = {} THEN weights
    ELSE LET id == CHOOSE x \in todo : TRUE
         IN audit_all(dag, audit_walk(dag, id, weights, <<id>>, {}), todo \ {id})

\* WeightCalculator::calculate_all_weights
calculate_all_weights(dag) ==
    audit_all(dag, [id \in transaction_ids(dag) |-> 1], transaction_ids(dag))

\* FinalityChecker::is_final
FinalityChecker_is_final(dag, tx_id) ==
    IF DagGet(dag, tx_id)
    THEN dag.vertices[tx_id].cumulative_weight >= FINALITY_THRESHOLD
    ELSE FALSE

\* ---- definitions used to state the properties ----

Stored == DOMAIN vertices

Range(seq) == {seq[i] : i \in DOMAIN seq}

ParentSet(v) == {parents(vertices[v])[1], parents(vertices[v])[2]}

\* Stored vertices that name v as a parent.
DirectChildren(v) == {u \in Stored : v \in ParentSet(u)}

\* Stored vertices from which v is reachable along parent edges.
RECURSIVE DescendantsFrom(_, _)
DescendantsFrom(frontier, seen) ==
    LET new == (UNION {DirectChildren(v) : v \in frontier}) \ seen
    IN IF new = {} THEN seen ELSE DescendantsFrom(new, seen \cup new)

Descendants(v) == DescendantsFrom({v}, {}) \ {v}

LedgerUnchanged == UNCHANGED <<vertices, children, tips, genesis_id>>

\* ---- C1 ----
\* C1: every stored vertex has cumulative_weight = 1 + the number of its
\* distinct stored descendants, each descendant counted once.
C1_WeightIsDescendantCount ==
    \A v \in Stored :
        vertices[v].cumulative_weight = 1 + Cardinality(Descendants(v))

\* ---- C2 ----
\* C2: the from-scratch auditor returns for every stored id exactly the
\* cumulative_weight the ledger maintains incrementally.
C2_AuditorMatchesIncremental ==
    LET w == calculate_all_weights(Ledger)
    IN /\ DOMAIN w = Stored
       /\ \A v \in Stored : w[v] = vertices[v].cumulative_weight

\* ---- C3 ----
\* C3: a Dag::insert call that fails with MissingParent leaves the vertex
\* map, the children map, the tip set and genesis_id as they were.
C3_MissingParentNoPartialInsert ==
    [][result'.err = "MissingParent" => LedgerUnchanged]_vars

\* ---- C4 ----
\* C4: the tip set is exactly the set of stored ids that no other stored
\* vertex names as a parent.
C4_TipsAreUnreferenced ==
    Range(tips) = {v \in Stored : DirectChildren(v) \ {v} = {}}

\* ---- C5 ----
\* C5: every stored vertex other than the genesis has both parent digests
\* equal to ids of stored vertices.
C5_NoDanglingParent ==
    \A v \in Stored : v # genesis_id => ParentSet(v) \subseteq Stored

\* ---- C6 ----
\* C6: at most one stored vertex has a zero-digest parent, and that vertex
\* has two zero-digest parents.
C6_SingleGenesis ==
    LET zeroParent == {v \in Stored : Zero \in ParentSet(v)}
    IN /\ Cardinality(zeroParent) <= 1
       /\ \A v \in zeroParent : ParentSet(v) = {Zero}

\* ---- C7 ----
\* C7: a Dag::insert call whose vertex id is already stored returns
\* DuplicateTransaction and leaves the whole ledger unchanged.
C7_DuplicateRejectedUnchanged ==
    [][result'.id \in Stored =>
          /\ result'.err = "DuplicateTransaction"
          /\ LedgerUnchanged
          /\ DagLen(Ledger') = DagLen(Ledger)]_vars

\* A duplicate insert has been attempted on a ledger whose vertices carry
\* accumulated weight.
C7_Witness ==
    /\ result.err = "DuplicateTransaction"
    /\ result.id \in Stored
    /\ vertices[result.id].cumulative_weight > 1

\* ---- C8 ----
\* C8: for every stored vertex the stored flag is_final is true iff its
\* cumulative_weight >= FINALITY_THRESHOLD, and this agrees with
\* FinalityChecker::is_final; FinalityChecker::is_final is false for an id
\* that is not stored.
C8_FinalFlagIffThreshold ==
    /\ \A v \in Stored :
          /\ vertices[v].is_final <=> vertices[v].cumulative_weight >= FINALITY_THRESHOLD
          /\ vertices[v].is_final <=> FinalityChecker_is_final(Ledger, v)
    /\ \A id \in (Ids \cup {Zero}) \ Stored : ~FinalityChecker_is_final(Ledger, id)

\* Some vertex sits exactly on the threshold and is final while others,
\* with descendants of their own, are still below it.
C8_Witness ==
    /\ \E v \in Stored :
          vertices[v].is_final /\ vertices[v].cumulative_weight = FINALITY_THRESHOLD
    /\ \E v \in Stored :
          ~vertices[v].is_final /\ vertices[v].cumulative_weight > 1

\* ---- C9 ----
\* C9: across every step a stored vertex stays stored with the same
\* transaction, its cumulative_weight never decreases and its is_final flag
\* never goes from true to false; len() never decreases.
C9_MonotoneLedger ==
    [][/\ \A v \in Stored :
             /\ v \in DOMAIN vertices'
             /\ vertices'[v].transaction = vertices[v].transaction
             /\ vertices'[v].cumulative_weight >= vertices[v].cumulative_weight
             /\ vertices[v].is_final => vertices'[v].is_final
       /\ DagLen(Ledger') >= DagLen(Ledger)]_vars

\* Weights have grown up to finality and a further call, a rejected one,
\* has been made on the ledger holding the final vertex.
C9_Witness ==
    /\ \E v \in Stored : vertices[v].is_final
    /\ \E v \in Stored : vertices[v].cumulative_weight \in 2..(FINALITY_THRESHOLD - 1)
    /\ result.err = "DuplicateTransaction"

\* ---- C10 ----
\* C10: a vertex that is Final has at least FINALITY_THRESHOLD - 1 distinct
\* stored descendants.
C10_NoPrematureFinality ==
    \A v \in Stored :
        FinalityChecker_is_final(Ledger, v) =>
            Cardinality(Descendants(v)) >= FINALITY_THRESHOLD - 1

\* ==== transactions with their payload (dag/transaction.rs) ====

\* TransactionData restricted to the fields the ledger and the validator
\* read, the timestamp and the nonce.
TransactionData(tx_type, ps, sender, recipient, amount, fee, timestamp, nonce) ==
    [tx_type |-> tx_type, parents |-> ps, sender |-> sender,
     recipient |-> recipient, amount |-> amount, fee |-> fee,
     timestamp |-> timestamp, nonce |-> nonce]

\* Hash::digest is modelled as a lazily sampled injective function: `table`
\* maps the digests handed out so far to the payloads they were computed
\* from, and a payload hashed for the first time gets the next number.
Digest(table, data) ==
    IF \E i \in DOMAIN table : table[i] = data
    THEN CHOOSE i \in DOMAIN table : table[i] = data
    ELSE MaxOr0(DOMAIN table) + 1

\* The digests a ledger knows: the payloads of its stored transactions.
DigestTable(dag) == [i \in DOMAIN dag.vertices |-> dag.vertices[i].transaction.data]

\* Transaction::new
TransactionNew(table, data, keypair) ==
    [id |-> Digest(table, data), data |-> data, signature |-> Sign(keypair, data)]

\* Transaction::genesis
genesis(table, keypair) ==
    TransactionNew(table,
        TransactionData("Genesis", <<Zero, Zero>>, keypair, keypair, BigZero, BigZero, 0, 0),
        keypair)

\* Transaction::transfer; now is what the clock returns to this call.
transfer(table, sender_keypair, recipient, amount, ps, nonce, now) ==
    TransactionNew(table,
        TransactionData("Transfer", ps, sender_keypair, recipient, amount, BigZero,
                        now, nonce),
        sender_keypair)

\* Transaction::relay_reward; now is what the clock returns to this call.
relay_reward(table, keypair, reward_amount, ps, nonce, now) ==
    TransactionNew(table,
        TransactionData("RelayReward", ps, keypair, keypair, reward_amount, BigZero,
                        now, nonce),
        keypair)

\* Transaction::verify_signature
verify_signature(tx) == Verify(tx.data.sender, tx.data, tx.signature)

\* Transaction::verify_id
verify_id(table, tx) == tx.id = Digest(table, tx.data)

\* ==== Dag::select_parents ====

\* The sort step that puts an element before the elements of equal depth.
InsertDesc_TiesLast(sorted, e) ==
    LET k == Cardinality({i \in DOMAIN sorted : sorted[i][2] > e[2]})
    IN SubSeq(sorted, 1, k) \o <<e>> \o SubSeq(sorted, k + 1, Len(sorted))

\* Vec::sort_by(|a, b| b.1.cmp(&a.1)) is a stable sort into descending
\* depth: an element goes behind every element of greater or equal depth
\* that stood before it.
InsertDesc(sorted, e) ==
    LET k == Cardinality({i \in DOMAIN sorted : sorted[i][2] >= e[2]})
    IN SubSeq(sorted, 1, k) \o <<e>> \o SubSeq(sorted, k + 1, Len(sorted))

RECURSIVE sort_by_depth_desc(_, _, _)
sort_by_depth_desc(pairs, i, acc) ==
    IF i > Len(pairs) THEN acc
    ELSE sort_by_depth_desc(pairs, i + 1, InsertDesc(acc, pairs[i]))

\* filter_map over the tips: (tip, depth) for every tip that is stored.
RECURSIVE TipDepths(_, _, _)
TipDepths(dag, i, acc) ==
    IF i > Len(dag.tips) THEN acc
    ELSE LET t == dag.tips[i]
         IN TipDepths(dag, i + 1,
                IF contains_key(dag.vertices, t)
                THEN Append(acc, <<t, dag.vertices[t].depth>>) ELSE acc)

select_parents(dag) ==
    IF Len(dag.tips) = 0 THEN <<Zero, Zero>>
    ELSE IF Len(dag.tips) = 1 THEN <<dag.tips[1], dag.tips[1]>>
    ELSE LET sorted_tips == sort_by_depth_desc(TipDepths(dag, 1, <<>>), 1, <<>>)
         IN <<sorted_tips[1][1], sorted_tips[2][1]>>

\* ==== FinalityChecker::finality_status ====
finality_status(dag, tx_id) ==
    IF ~DagGet(dag, tx_id) THEN [tag |-> "Unknown"]
    ELSE LET vertex == dag.vertices[tx_id]
         IN IF vertex.cumulative_weight >= FINALITY_THRESHOLD THEN [tag |-> "Final"]
            ELSE IF vertex.cumulative_weight > 1
                 THEN [tag |-> "Confirming", weight |-> vertex.cumulative_weight,
                       needed |-> FINALITY_THRESHOLD]
                 ELSE [tag |-> "Pending"]

\* ==== a chain grown from a genesis (finality.rs:77-106) ====

\* dag.insert(DagVertex::new(tx, depth)) on the ledger in the variables.
InsertTx(tx, depth) ==
    \E r \in {DagInsert(Ledger, DagVertexNew(tx, depth))} :
          /\ vertices' = r.dag.vertices
          /\ children' = r.dag.children
          /\ tips' = r.dag.tips
          /\ genesis_id' = r.dag.genesis_id
          /\ result' = [id |-> tx.id, err |-> r.err]

\* The genesis of the key pair kp is inserted into the empty ledger.
ChainGenesis(kp) ==
    /\ DagLen(Ledger) = 0
    /\ InsertTx(genesis(DigestTable(Ledger), kp), 0)
    /\ UNCHANGED <<relay_tracker, mutex, handlers, walk>>

\* The key pair of the test: the one that signed the genesis.
ChainKey == vertices[genesis_id].transaction.data.sender

\* A relay reward of 100 units signed by the key pair of the genesis and
\* stamped with the clock reading now, naming the parents that
\* select_parents returns, is inserted one level deeper.
ChainInsert(now) ==
    /\ DagLen(Ledger) \in 1..(MaxChain - 1)
    /\ InsertTx(relay_reward(DigestTable(Ledger), ChainKey, Big(100),
                             select_parents(Ledger), DagLen(Ledger), now),
                DagDepth(Ledger) + 1)
    /\ UNCHANGED <<relay_tracker, mutex, handlers, walk>>

NextChain ==
    \/ \E kp \in Keys : ChainGenesis(kp)
    \/ \E now \in Timestamps : ChainInsert(now)

SpecChain == Init /\ [][NextChain]_vars

\* ---- C11 ----
\* C11: a ledger holding only the genesis shows it Pending with weight 1;
\* once FINALITY_THRESHOLD further transactions, each naming the current
\* tip, have been inserted, the genesis has weight >= FINALITY_THRESHOLD and
\* status Final, and it keeps that status under every further insertion.
C11_GenesisFinalAfterThreshold ==
    genesis_id # None =>
        /\ DagLen(Ledger) = 1 =>
              /\ vertices[genesis_id].cumulative_weight = 1
              /\ finality_status(Ledger, genesis_id) = [tag |-> "Pending"]
        /\ DagLen(Ledger) >= 1 + FINALITY_THRESHOLD =>
              /\ vertices[genesis_id].cumulative_weight >= FINALITY_THRESHOLD
              /\ finality_status(Ledger, genesis_id) = [tag |-> "Final"]
              /\ FinalityChecker_is_final(Ledger, genesis_id)

\* The threshold number of transactions has been chained and one more has
\* been inserted after them.
C11_Witness ==
    /\ genesis_id # None
    /\ DagLen(Ledger) > 1 + FINALITY_THRESHOLD
    /\ result.err = "Ok"
    /\ finality_status(Ledger, genesis_id) = [tag |-> "Final"]

\* ==== Dag::get_balance ====

\* The loop of get_balance over the vertices in `ids`, with the i128
\* running balance.
RECURSIVE balance_scan(_, _, _, _)
balance_scan(dag, ids, pubkey, balance) ==
    IF ids = {} THEN balance
    ELSE LET i == CHOOSE x \in ids : TRUE
             data == dag.vertices[i].transaction.data
             received == IF data.recipient = pubkey
                         THEN BigAdd(balance, data.amount) ELSE balance
             sent == IF data.sender = pubkey /\ data.recipient # pubkey
                     THEN BigSub(BigSub(received, data.amount), data.fee)
                     ELSE received
         IN balance_scan(dag, ids \ {i}, pubkey, sent)

\* i128::max(0)
ClampAtZero(balance) == IF BigLt(balance, BigZero) THEN BigZero ELSE balance

get_balance(dag, pubkey) ==
    AsU64(ClampAtZero(balance_scan(dag, DOMAIN dag.vertices, pubkey, BigZero)))

\* ==== TransactionValidator (dag/validator.rs) ====

ValidationOk == [err |-> "Ok"]

ValidationError(name) == [err |-> name]

\* validate_genesis with the parents tested before the existing genesis.
validate_genesis_ParentsFirst(tx, dag) ==
    IF ~is_zero(tx.data.parents[1]) \/ ~is_zero(tx.data.parents[2])
    THEN ValidationError("ParentNotFound")
    ELSE IF dag.genesis_id # None THEN ValidationError("InvalidId")
         ELSE ValidationOk

\* validate_genesis
validate_genesis(tx, dag) ==
    IF dag.genesis_id # None THEN ValidationError("InvalidId")
    ELSE IF ~is_zero(tx.data.parents[1]) \/ ~is_zero(tx.data.parents[2])
         THEN ValidationError("ParentNotFound")
         ELSE ValidationOk

\* The parent loop stopping after the first slot.
ParentMissing_FirstOnly(tx, dag) == ~DagGet(dag, tx.data.parents[1])

\* The parent loop passing over zero digests, as the ledger's own does.
ParentMissing_ZeroAllowed(tx, dag) ==
    \E k \in 1..2 : ~is_zero(tx.data.parents[k]) /\ ~DagGet(dag, tx.data.parents[k])

\* The loop over tx.data.parents of validate_transfer and
\* validate_relay_reward.
ParentMissing(tx, dag) == \E k \in 1..2 : ~DagGet(dag, tx.data.parents[k])

\* u64 addition amount + fee (validator.rs:82).  A sum of 2^64 or more
\* panics in a build with overflow checks and wraps in a build without.
total_needed(tx, overflow_checks) ==
    LET sum == BigAdd(tx.data.amount, tx.data.fee)
    IN IF BigLt(sum, TwoPow64) THEN [panic |-> FALSE, value |-> sum]
       ELSE IF overflow_checks THEN [panic |-> TRUE, value |-> BigZero]
       ELSE [panic |-> FALSE, value |-> BigSub(sum, TwoPow64)]

\* The comparison of the balance check (validator.rs:83).
BalanceShort(balance, need) == BigLt(balance, need)

\* validate_transfer
validate_transfer(tx, dag, overflow_checks) ==
    IF tx.data.amount = BigZero THEN ValidationError("ZeroAmount")
    ELSE IF BigLt(MAX_SUPPLY, tx.data.amount) THEN ValidationError("ExceedsMaxSupply")
    ELSE IF ParentMissing(tx, dag) THEN ValidationError("ParentNotFound")
    ELSE LET balance == get_balance(dag, tx.data.sender)
             need == total_needed(tx, overflow_checks)
         IN IF need.panic THEN ValidationError("Panic")
            ELSE IF BalanceShort(balance, need.value)
                 THEN [err |-> "InsufficientBalance", have |-> balance,
                       need |-> need.value]
                 ELSE ValidationOk

\* validate_relay_reward with the amount limit tested before the parents.
validate_relay_reward_AmountFirst(tx, dag) ==
    IF tx.data.sender # tx.data.recipient THEN ValidationError("InvalidRelayReward")
    ELSE IF BigLt(Big(BASE_RELAY_REWARD), tx.data.amount)
         THEN ValidationError("InvalidRelayReward")
    ELSE IF ParentMissing(tx, dag) THEN ValidationError("ParentNotFound")
    ELSE ValidationOk

\* validate_relay_reward
validate_relay_reward(tx, dag) ==
    IF tx.data.sender # tx.data.recipient THEN ValidationError("InvalidRelayReward")
    ELSE IF ParentMissing(tx, dag) THEN ValidationError("ParentNotFound")
    ELSE IF BigLt(Big(BASE_RELAY_REWARD), tx.data.amount)
         THEN ValidationError("InvalidRelayReward")
    ELSE ValidationOk

\* The match of validate has no arm for FounderAllocation (validator.rs:43-47)
\* and the admission pipeline defines no rule that accepts one: a
\* FounderAllocation is never accepted by the validator.
validate_founder_allocation(tx, dag) == ValidationError("NoRule")

\* The match on tx.data.tx_type (validator.rs:43-47); it has arms for
\* Genesis, Transfer and RelayReward only.
validate_by_type(tx, dag, overflow_checks) ==
    CASE tx.data.tx_type = "Genesis" -> validate_genesis(tx, dag)
      [] tx.data.tx_type = "Transfer" -> validate_transfer(tx, dag, overflow_checks)
      [] tx.data.tx_type = "RelayReward" -> validate_relay_reward(tx, dag)
      [] tx.data.tx_type = "FounderAllocation" -> validate_founder_allocation(tx, dag)

\* validate with the signature verified before the id.
validate_SignatureFirst(table, tx, dag, overflow_checks) ==
    IF ~verify_signature(tx) THEN ValidationError("InvalidSignature")
    ELSE IF ~verify_id(table, tx) THEN ValidationError("InvalidId")
    ELSE validate_by_type(tx, dag, overflow_checks)

\* TransactionValidator::validate; `table` is the digest function.
validate(table, tx, dag, overflow_checks) ==
    IF ~verify_id(table, tx) THEN ValidationError("InvalidId")
    ELSE IF ~verify_signature(tx) THEN ValidationError("InvalidSignature")
    ELSE validate_by_type(tx, dag, overflow_checks)

\* ==== RelayTracker (consensus/relay.rs) ====

\* calculate_reward on a continuous curve instead of a stepwise one.
calculate_reward_Continuous(relay_count) ==
    (BASE_RELAY_REWARD * RELAY_HALVING_INTERVAL)
        \div (RELAY_HALVING_INTERVAL + relay_count)

\* calculate_reward
calculate_reward(relay_count) ==
    LET divisor == 1 + (relay_count \div RELAY_HALVING_INTERVAL)
    IN BASE_RELAY_REWARD \div divisor

\* get_relay_count
get_relay_count(tracker, pubkey) ==
    IF contains_key(tracker.relay_counts, pubkey) THEN tracker.relay_counts[pubkey] ELSE 0

\* The supply cap test of record_relay (relay.rs:83).
ExceedsSupply_BeforeAdding(total, reward) == BigLt(MAX_SUPPLY, total)

ExceedsSupply(total, reward) == BigLt(MAX_SUPPLY, BigAdd(total, Big(reward)))

\* record_relay that takes the reward from the network's relay total, that
\* is from the order of arrival, instead of the relayer's own count.
record_relay_ByArrival(tracker, pubkey) ==
    LET current_count == get_relay_count(tracker, pubkey) + 1
        counted == [tracker EXCEPT
                       !.relay_counts = MapPut(@, pubkey, current_count),
                       !.total_relays = @ + 1]
        reward == calculate_reward(counted.total_relays)
    IN IF ExceedsSupply(tracker.total_rewards_distributed, reward)
       THEN [tracker |-> counted, reward |-> 0]
       ELSE [tracker |-> [counted EXCEPT !.total_rewards_distributed =
                                              BigAdd(@, Big(reward))],
             reward |-> reward]

\* record_relay that counts a relay only when it is rewarded.
record_relay_CountIfPaid(tracker, pubkey) ==
    LET current_count == get_relay_count(tracker, pubkey) + 1
        reward == calculate_reward(current_count)
    IN IF ExceedsSupply(tracker.total_rewards_distributed, reward)
       THEN [tracker |-> tracker, reward |-> 0]
       ELSE [tracker |->
                [relay_counts |-> MapPut(tracker.relay_counts, pubkey, current_count),
                 total_relays |-> tracker.total_relays + 1,
                 total_rewards_distributed |->
                     BigAdd(tracker.total_rewards_distributed, Big(reward))],
             reward |-> reward]

\* record_relay: the tracker after the call and the returned reward.
record_relay(tracker, pubkey) ==
    LET current_count == get_relay_count(tracker, pubkey) + 1
        counted == [tracker EXCEPT
                       !.relay_counts = MapPut(@, pubkey, current_count),
                       !.total_relays = @ + 1]
        reward == calculate_reward(current_count)
    IN IF ExceedsSupply(tracker.total_rewards_distributed, reward)
       THEN [tracker |-> counted, reward |-> 0]
       ELSE [tracker |-> [counted EXCEPT !.total_rewards_distributed =
                                              BigAdd(@, Big(reward))],
             reward |-> reward]

\* total_rewards
total_rewards(tracker) == tracker.total_rewards_distributed

\* total_relays
total_relays(tracker) == tracker.total_relays

\* ==== transactions submitted to the validator ====

TransactionTypes == {"Genesis", "Transfer", "RelayReward"}

HalfReward == Big(BASE_RELAY_REWARD \div 2)

FullReward == Big(BASE_RELAY_REWARD)

\* One and a half times the base relay reward (validator.rs:181).
OverReward == Big(BASE_RELAY_REWARD + BASE_RELAY_REWARD \div 2)

\* The amounts submitted: zero, the three above, and the greatest u64.
Amounts == {BigZero, HalfReward, FullReward, OverReward, U64_MAX}

\* The fees submitted with a payload of type ty; the constructors of
\* transaction.rs always write fee 0, the field itself is any u64.
Fees(ty) == IF ty = "Transfer" THEN {BigZero, U64_MAX} ELSE {BigZero}

\* A digest that no transaction known to the ledger has.
UnknownId(dag) == MaxOr0(DOMAIN dag.vertices) + 2

\* The parent pairs a submitted transaction names: both zero, both stored,
\* one slot stored and the other unknown, or zero before a stored one.
ParentPairs(dag) ==
    LET t == select_parents(dag)[1]
        u == UnknownId(dag)
    IN {<<Zero, Zero>>, <<t, t>>, <<t, u>>, <<u, t>>, <<Zero, t>>}

\* The payloads submitted against the ledger dag.
Payloads(dag) ==
    UNION {{TransactionData(ty, ps, s, r, a, f, 1, DagLen(dag)) :
               ps \in ParentPairs(dag), s \in Keys, r \in Keys,
               a \in Amounts, f \in Fees(ty)} : ty \in TransactionTypes}

\* How a submitted transaction was made: properly; with the amount altered
\* after signing; with an id that is not the digest; signed by another key.
Defects == {"none", "tampered", "wrong_id", "forged"}

OtherKey(k) == CHOOSE x \in Keys : x # k

\* The transaction of payload `data` as it reaches the validator, and the
\* digest function after the sender has hashed the payload.
Submitted(dag, data, defect) ==
    LET signer == IF defect = "forged" THEN OtherKey(data.sender) ELSE data.sender
        made == TransactionNew(DigestTable(dag), data, signer)
        tx == CASE defect = "tampered" ->
                     [made EXCEPT !.data.amount =
                         IF @ = BigZero THEN Big(1) ELSE BigSub(@, Big(1))]
                [] defect = "wrong_id" -> [made EXCEPT !.id = UnknownId(dag)]
                [] OTHER -> made
    IN [tx |-> tx, table |-> MapPut(DigestTable(dag), made.id, data)]

\* The builds in which validate can be run on tx: with and without
\* overflow checks where amount + fee leaves the u64 range, which the
\* sources do not fix; otherwise the two behave alike.
Builds(tx) ==
    IF BigLt(BigAdd(tx.data.amount, tx.data.fee), TwoPow64) THEN {FALSE} ELSE BOOLEAN

\* ==== queries on a ledger built by direct inserts ====
\* (the tests of validator.rs and vertex.rs: a ledger is filled with
\* dag.insert and then validate or get_balance is called on it)

\* The payloads the ledger is filled with: a genesis of the first key to
\* either key, then relay rewards and transfers naming the selected parents.
SeedPayloads(dag) ==
    IF DagLen(dag) = 0
    THEN {TransactionData("Genesis", <<Zero, Zero>>, "K1", r, a, BigZero, 0, 0) :
             r \in Keys, a \in {BigZero, U64_MAX}}
    ELSE {TransactionData("RelayReward", select_parents(dag), k, k, FullReward,
                          BigZero, 1, DagLen(dag)) : k \in Keys}
         \cup {TransactionData("Transfer", select_parents(dag), k, OtherKey(k), a,
                               BigZero, 1, DagLen(dag)) :
                  k \in Keys, a \in {HalfReward, OverReward}}

\* The last call was a query; a run makes its query last.
Queried == "query" \in DOMAIN result

\* dag.insert(DagVertex::new(Transaction::new(data, sender), depth))
SeedInsert(data, depth) ==
    /\ DagLen(Ledger) < MaxLedger
    /\ InsertTx(TransactionNew(DigestTable(Ledger), data, data.sender), depth)
    /\ UNCHANGED <<relay_tracker, mutex, handlers, walk>>

\* TransactionValidator::validate(&tx, &dag)
Validate(data, defect) ==
    /\ \E sub \in {Submitted(Ledger, data, defect)} :
         \E overflow_checks \in Builds(sub.tx) :
           \E v \in {validate(sub.table, sub.tx, Ledger, overflow_checks)} :
              result' = [id |-> sub.tx.id, query |-> "validate", tx |-> sub.tx,
                         defect |-> defect, err |-> v.err, outcome |-> v]
    /\ UNCHANGED <<vertices, children, tips, genesis_id, relay_tracker, mutex, handlers, walk>>

\* dag.get_balance(&pubkey)
GetBalance(pubkey) ==
    /\ result' = [id |-> Zero, query |-> "get_balance", pubkey |-> pubkey,
                  err |-> "Ok", balance |-> get_balance(Ledger, pubkey)]
    /\ UNCHANGED <<vertices, children, tips, genesis_id, relay_tracker, mutex, handlers, walk>>

NextQuery ==
    \/ ~Queried /\ \E data \in SeedPayloads(Ledger), depth \in DepthsPassed(Ledger) :
                      SeedInsert(data, depth)
    \/ ~Queried /\ \E data \in Payloads(Ledger), defect \in Defects : Validate(data, defect)
    \/ ~Queried /\ \E pubkey \in Keys : GetBalance(pubkey)

SpecQuery == Init /\ [][NextQuery]_vars

\* The last call was validate on a properly made transaction of type ty.
ValidatedProper(ty) ==
    /\ Queried
    /\ result.query = "validate"
    /\ result.defect = "none"
    /\ result.tx.data.tx_type = ty

BothParentsStored(tx) == \A k \in 1..2 : tx.data.parents[k] \in Stored

\* ---- C12 ----
\* C12: validate answers InvalidId for every transaction whose id is not
\* the digest of its payload, whatever its signature, type, fields and the
\* ledger; it answers InvalidSignature for every transaction with a correct
\* id whose signature is not by the sender, whatever the type rules would
\* say.  A payload altered after signing has a stale id and a stale
\* signature and gets InvalidId.
C12_IdThenSignatureThenRules ==
    (Queried /\ result.query = "validate") =>
        /\ result.defect \in {"tampered", "wrong_id"} => result.outcome = [err |-> "InvalidId"]
        /\ result.defect = "forged" => result.outcome = [err |-> "InvalidSignature"]

\* A transfer that the sender can afford, altered after signing, has been
\* validated on a ledger holding the sender's funds.
C12_Witness ==
    /\ Queried
    /\ result.query = "validate"
    /\ result.defect = "tampered"
    /\ result.tx.data.tx_type = "Transfer"
    /\ BothParentsStored(result.tx)
    /\ result.tx.data.fee = BigZero
    /\ BigLt(BigZero, result.tx.data.amount)
    /\ BigLe(result.tx.data.amount, get_balance(Ledger, result.tx.data.sender))
    /\ ~verify_signature(result.tx)
    /\ result.err = "InvalidId"

\* ---- C13 ----
\* C13: for a properly made Transfer, validate answers ZeroAmount if the
\* amount is 0, else ExceedsMaxSupply if the amount is above MAX_SUPPLY,
\* else ParentNotFound if a parent is not stored, else
\* InsufficientBalance{have, need} with have = get_balance(sender) and
\* need = amount + fee if have < need, else Ok.
C13_TransferRuleOrder ==
    ValidatedProper("Transfer") =>
        LET data == result.tx.data
            have == get_balance(Ledger, data.sender)
            need == BigAdd(data.amount, data.fee)
        IN result.outcome =
             IF data.amount = BigZero THEN [err |-> "ZeroAmount"]
             ELSE IF BigLt(MAX_SUPPLY, data.amount) THEN [err |-> "ExceedsMaxSupply"]
             ELSE IF ~BothParentsStored(result.tx) THEN [err |-> "ParentNotFound"]
             ELSE IF BigLt(have, need)
                  THEN [err |-> "InsufficientBalance", have |-> have, need |-> need]
                  ELSE [err |-> "Ok"]

\* C13 for the fees at which amount + fee stays within u64.
C13_TransferRuleOrderWithinU64 ==
    (ValidatedProper("Transfer")
        /\ BigLt(BigAdd(result.tx.data.amount, result.tx.data.fee), TwoPow64))
    => C13_TransferRuleOrder

\* ---- C14 ----
\* C14: for a properly made RelayReward, validate answers
\* InvalidRelayReward if sender # recipient, else ParentNotFound if a parent
\* is not stored, else InvalidRelayReward if the amount is above
\* BASE_RELAY_REWARD, else Ok; the sender's balance plays no part.
C14_RelayRewardRuleOrder ==
    ValidatedProper("RelayReward") =>
        LET data == result.tx.data
        IN result.outcome =
             IF data.sender # data.recipient THEN [err |-> "InvalidRelayReward"]
             ELSE IF ~BothParentsStored(result.tx) THEN [err |-> "ParentNotFound"]
             ELSE IF BigLt(Big(BASE_RELAY_REWARD), data.amount)
                  THEN [err |-> "InvalidRelayReward"]
                  ELSE [err |-> "Ok"]

\* A relay reward of the full base amount has been accepted for a key
\* whose balance is zero.
C14_Witness ==
    /\ ValidatedProper("RelayReward")
    /\ result.err = "Ok"
    /\ result.tx.data.amount = FullReward
    /\ get_balance(Ledger, result.tx.data.sender) = BigZero
    /\ DagLen(Ledger) >= 2

\* ---- C15 ----
\* C15: for a properly made Genesis, validate answers InvalidId if the
\* ledger has a genesis_id, else ParentNotFound if a parent is not the zero
\* digest, else Ok; with a genesis stored, a genesis of any other key is
\* rejected.
C15_GenesisRuleOrder ==
    ValidatedProper("Genesis") =>
        LET data == result.tx.data
        IN /\ result.outcome =
                IF genesis_id # None THEN [err |-> "InvalidId"]
                ELSE IF data.parents # <<Zero, Zero>> THEN [err |-> "ParentNotFound"]
                ELSE [err |-> "Ok"]
           /\ Stored # {} => result.err # "Ok"

\* A genesis of another key than the stored genesis, with zero parents, has
\* been rejected.
C15_Witness ==
    /\ ValidatedProper("Genesis")
    /\ genesis_id # None
    /\ result.tx.data.sender # vertices[genesis_id].transaction.data.sender
    /\ result.tx.data.parents = <<Zero, Zero>>
    /\ result.err = "InvalidId"

\* ---- C16 ----
RECURSIVE SumAmounts(_, _)
SumAmounts(S, f) ==
    IF S = {} THEN BigZero
    ELSE LET i == CHOOSE x \in S : TRUE IN BigAdd(f[i], SumAmounts(S \ {i}, f))

PayloadOf(i) == vertices[i].transaction.data

\* Sum of amount over the stored transactions with recipient K.
Received(K) ==
    LET amount_of == [i \in Stored |-> PayloadOf(i).amount]
    IN SumAmounts({i \in Stored : PayloadOf(i).recipient = K}, amount_of)

\* Sum of amount + fee over the stored transactions from K to another key.
Sent(K) ==
    LET cost_of == [i \in Stored |-> BigAdd(PayloadOf(i).amount, PayloadOf(i).fee)]
    IN SumAmounts({i \in Stored : PayloadOf(i).sender = K /\ PayloadOf(i).recipient # K},
                  cost_of)

\* Received minus sent, not floored.
RunningTotal(K) == BigSub(Received(K), Sent(K))

\* C16: get_balance(K) = max(0, received - sent).
C16_BalanceIsFlooredTotal ==
    (Queried /\ result.query = "get_balance") =>
        result.balance =
            IF BigLt(RunningTotal(result.pubkey), BigZero) THEN BigZero
            ELSE RunningTotal(result.pubkey)

\* C16 for the ledgers on which K has received less than 2^64 units.
C16_BalanceIsFlooredTotalWithinU64 ==
    (Queried /\ result.query = "get_balance" /\ BigLt(Received(result.pubkey), TwoPow64))
    => C16_BalanceIsFlooredTotal

\* ==== the admission path of a node (rhiza-node/src/main.rs) ====

\* NodeState::keypair
NodeKey == "K1"

\* NodeState as a record of what process_transaction and send change.
NodeState == [dag |-> Ledger, relay_tracker |-> relay_tracker]

\* process_transaction: the node after the call and the call's result.
process_transaction(node, table, tx, overflow_checks) ==
    LET v == validate(table, tx, node.dag, overflow_checks)
    IN IF v.err # "Ok" THEN [node |-> node, res |-> v]
       ELSE LET depth == DagDepth(node.dag) + 1
                r == DagInsert(node.dag, DagVertexNew(tx, depth))
            IN IF r.err # "Ok"
               THEN [node |-> [node EXCEPT !.dag = r.dag], res |-> [err |-> r.err]]
               ELSE [node |-> [dag |-> r.dag,
                               relay_tracker |->
                                   record_relay(node.relay_tracker, NodeKey).tracker],
                     res |-> ValidationOk]

\* send: the node after the call, the call's result and the id of the
\* transfer it made.
send(node, recipient, amount, now) ==
    LET ps == select_parents(node.dag)
        nonce == DagLen(node.dag)
        table == DigestTable(node.dag)
        tx == transfer(table, NodeKey, recipient, amount, ps, nonce, now)
        v == validate(MapPut(table, tx.id, tx.data), tx, node.dag, FALSE)
    IN IF v.err # "Ok" THEN [node |-> node, res |-> v, id |-> tx.id]
       ELSE LET depth == DagDepth(node.dag) + 1
                r == DagInsert(node.dag, DagVertexNew(tx, depth))
            IN [node |-> [node EXCEPT !.dag = r.dag], res |-> [err |-> r.err],
                id |-> tx.id]

\* The payloads submitted to a node whose ledger is dag.
AdmitPayloads(dag) ==
    LET t == select_parents(dag)[1]
        PP == {<<Zero, Zero>>, <<t, t>>, <<t, UnknownId(dag)>>}
        n == DagLen(dag)
    IN {TransactionData("Genesis", ps, s, r, a, BigZero, 0, n) :
           ps \in PP, s \in Keys, r \in Keys, a \in {BigZero, HalfReward}}
       \cup {TransactionData("RelayReward", ps, s, r, a, BigZero, 1, n) :
                ps \in PP, s \in Keys, r \in Keys, a \in {FullReward, OverReward}}
       \cup {TransactionData("Transfer", ps, s, r, a, f, 1, n) :
                ps \in PP, s \in Keys, r \in Keys,
                a \in {BigZero, HalfReward, OverReward}, f \in Fees("Transfer")}

\* The node becomes n and the call on transaction id returned res.
NodeBecomes(n, id, res) ==
    /\ DagLen(n.dag) <= MaxLedger
    /\ vertices' = n.dag.vertices
    /\ children' = n.dag.children
    /\ tips' = n.dag.tips
    /\ genesis_id' = n.dag.genesis_id
    /\ relay_tracker' = n.relay_tracker
    /\ result' = [id |-> id, err |-> res.err, detail |-> res]
    /\ UNCHANGED <<mutex, handlers, walk>>

ProcessTransaction(data, defect) ==
    \E sub \in {Submitted(Ledger, data, defect)} :
      \E overflow_checks \in Builds(sub.tx) :
        \E r \in {process_transaction(NodeState, sub.table, sub.tx, overflow_checks)} :
            NodeBecomes(r.node, sub.tx.id, r.res)

Send(recipient, amount) ==
    \E now \in Timestamps :
        \E r \in {send(NodeState, recipient, amount, now)} :
            NodeBecomes(r.node, r.id, r.res)

NextAdmit ==
    \/ \E data \in AdmitPayloads(Ledger), defect \in {"none", "tampered"} :
          ProcessTransaction(data, defect)
    \/ \E recipient \in Keys, amount \in {HalfReward, OverReward} : Send(recipient, amount)

SpecAdmit == Init /\ [][NextAdmit]_vars

\* ---- C17 ----
\* C17: on a ledger that only process_transaction and send have written,
\* each after validate answered Ok, no key has sent more than it received.
C17_NoNegativeRunningTotal ==
    \A K \in Keys : ~BigLt(RunningTotal(K), BigZero)

\* C17 read on ledgers whose genesis moves nothing and whose transfers
\* carry a fee that keeps amount + fee within u64.
C17_NoNegativeRunningTotalPlainGenesis ==
    (\A i \in Stored :
        /\ PayloadOf(i).tx_type = "Genesis" => PayloadOf(i).amount = BigZero
        /\ BigLt(BigAdd(PayloadOf(i).amount, PayloadOf(i).fee), TwoPow64))
    => C17_NoNegativeRunningTotal

\* ==== vertices inserted at a depth of the caller's choice ====
\* (DagVertex::new takes the depth as an argument, vertex.rs:23)

TipTransactions == {tx \in Transactions : tx.id <= MaxTipId}

InsertAtDepth(tx, depth) ==
    \E r \in {DagInsert(Ledger, DagVertexNew(tx, depth))} :
          /\ FailedLinks(r.dag) <= MaxFailedLinks
          /\ vertices' = r.dag.vertices
          /\ children' = r.dag.children
          /\ tips' = r.dag.tips
          /\ genesis_id' = r.dag.genesis_id
          /\ result' = [id |-> tx.id, err |-> r.err]
          /\ UNCHANGED <<relay_tracker, mutex, handlers, walk>>

NextTips == \E tx \in TipTransactions, depth \in 0..MaxDepth : InsertAtDepth(tx, depth)

SpecTips == Init /\ [][NextTips]_vars

\* ---- C18 ----
TipDepth(i) == vertices[tips[i]].depth

\* The tip at position i goes before the tip at position k: it is deeper,
\* or as deep and earlier in the tip collection.
TipBefore(i, k) == TipDepth(i) > TipDepth(k) \/ (TipDepth(i) = TipDepth(k) /\ i < k)

\* C18: select_parents returns the zero pair iff there is no tip, the only
\* tip twice when there is one, and otherwise two distinct tips: the one
\* that goes before all others and the one that goes before all the rest.
\* Every id it returns when there is a tip is a tip.
C18_SelectParents ==
    LET r == select_parents(Ledger)
        n == Len(tips)
    IN /\ r = <<Zero, Zero>> <=> n = 0
       /\ n = 1 => r = <<tips[1], tips[1]>>
       /\ n >= 1 => r[1] \in Range(tips) /\ r[2] \in Range(tips)
       /\ n >= 2 =>
             /\ r[1] # r[2]
             /\ \E i \in 1..n, j \in 1..n :
                   /\ i # j
                   /\ r = <<tips[i], tips[j]>>
                   /\ \A k \in (1..n) \ {i} : TipBefore(i, k)
                   /\ \A k \in (1..n) \ {i, j} : TipBefore(j, k)

\* Three tips, the first and the last of equal depth and deeper than the
\* middle one: the answer is the first and the last, in that order.
C18_Witness ==
    /\ Len(tips) = 3
    /\ TipDepth(1) = TipDepth(3)
    /\ TipDepth(2) < TipDepth(1)
    /\ select_parents(Ledger) = <<tips[1], tips[3]>>

\* ==== the relay tracker on its own (consensus/relay.rs) ====

\* Sum of calculate_reward(i) for i = 1..c, the rewards of the first c
\* relays of one participant, added up per block of equal reward starting
\* at block b.
RECURSIVE IssuedFrom(_, _)
IssuedFrom(c, b) ==
    LET first == IF b = 0 THEN 1 ELSE b * RELAY_HALVING_INTERVAL
        last == IF c < (b + 1) * RELAY_HALVING_INTERVAL - 1
                THEN c ELSE (b + 1) * RELAY_HALVING_INTERVAL - 1
    IN IF first > c THEN BigZero
       ELSE BigAdd(Big((last - first + 1) * calculate_reward(first)),
                   IssuedFrom(c, b + 1))

\* The relay counts at which a participant is picked up.
StartCounts == {0} \cup {b * RELAY_HALVING_INTERVAL - RelayWindow : b \in 1..MaxBlocks}

\* The tracker after K1 and K2 have relayed c1 and c2 times while the supply
\* cap was out of reach, and other participants have been paid `others` in
\* full and half base rewards; relay_counts lists K1 and K2 only.
TrackerAfter(c1, c2, others) ==
    LET full == others[2] * (UNITS_PER_RHZ \div BASE_RELAY_REWARD)
                    + (others[3] \div BASE_RELAY_REWARD)
        half == (others[3] % BASE_RELAY_REWARD) \div (BASE_RELAY_REWARD \div 2)
        counts == [k \in {x \in Keys : (IF x = "K1" THEN c1 ELSE c2) > 0} |->
                      IF k = "K1" THEN c1 ELSE c2]
    IN [relay_counts |-> counts,
        total_relays |-> c1 + c2 + full + half,
        total_rewards_distributed |->
            BigAdd(BigAdd(IssuedFrom(c1, 0), IssuedFrom(c2, 0)), others)]

\* The trackers a run starts from: nothing paid to others, or so much that
\* the total stands j half rewards below MAX_SUPPLY.
TrackerStates ==
    {TrackerAfter(c1, c2, BigZero) : c1 \in StartCounts, c2 \in StartCounts}
    \cup {TrackerAfter(c1, c2,
              BigSub(BigSub(BigSub(MAX_SUPPLY, Big(j * (BASE_RELAY_REWARD \div 2))),
                            IssuedFrom(c1, 0)), IssuedFrom(c2, 0))) :
             c1 \in StartCounts, c2 \in StartCounts, j \in 0..NearCap}

InitRelay ==
    /\ vertices = DagNew.vertices
    /\ children = DagNew.children
    /\ tips = DagNew.tips
    /\ genesis_id = DagNew.genesis_id
    /\ relay_tracker \in TrackerStates
    /\ result = [id |-> Zero, err |-> "None"]
    /\ mutex = Unlocked
    /\ handlers = <<>>
    /\ walk = NoWalk

\* The relayer's count is within RelayWindow of a multiple of
\* RELAY_HALVING_INTERVAL.
InWindow(count) ==
    (count + RelayWindow) % RELAY_HALVING_INTERVAL < 2 * RelayWindow

\* relay_tracker.record_relay(&relayer)
RecordRelay(relayer) ==
    /\ InWindow(get_relay_count(relay_tracker, relayer))
    /\ \E r \in {record_relay(relay_tracker, relayer)} :
          /\ relay_tracker' = r.tracker
          /\ result' = [id |-> Zero, err |-> "Ok", relayer |-> relayer,
                        reward |-> r.reward]
    /\ UNCHANGED <<vertices, children, tips, genesis_id, mutex, handlers, walk>>

NextRelay == \E relayer \in Keys : RecordRelay(relayer)

SpecRelay == InitRelay /\ [][NextRelay]_vars

\* ---- C19 ----
\* C19: the total of rewards issued never exceeds MAX_SUPPLY.
C19_RewardsWithinSupply == BigLe(total_rewards(relay_tracker), MAX_SUPPLY)

Relayed == "relayer" \in DOMAIN result

\* A relay has been refused its reward because the total stands less than
\* that reward below MAX_SUPPLY, and not at MAX_SUPPLY itself.
C19_Witness ==
    /\ Relayed
    /\ result.reward = 0
    /\ BigLt(total_rewards(relay_tracker), MAX_SUPPLY)
    /\ total_relays(relay_tracker) > 0

\* ---- C20 ----
\* C20: a call record_relay(K) adds one to K's count and to total_relays,
\* leaves every other count as it was, and either returns 0 with the total
\* of rewards unchanged, when that total plus K's reward would exceed
\* MAX_SUPPLY, or returns K's reward with the total grown by it.
C20_RecordRelayEffect ==
    [][LET K == result'.relayer
           reward == calculate_reward(get_relay_count(relay_tracker', K))
           total == total_rewards(relay_tracker)
       IN /\ get_relay_count(relay_tracker', K) = get_relay_count(relay_tracker, K) + 1
          /\ total_relays(relay_tracker') = total_relays(relay_tracker) + 1
          /\ \A other \in Keys \ {K} :
                get_relay_count(relay_tracker', other) = get_relay_count(relay_tracker, other)
          /\ IF BigLt(MAX_SUPPLY, BigAdd(total, Big(reward)))
             THEN result'.reward = 0 /\ total_rewards(relay_tracker') = total
             ELSE /\ result'.reward = reward
                  /\ total_rewards(relay_tracker') = BigAdd(total, Big(result'.reward))
      ]_vars

\* A relay has gone unrewarded at the cap and has been counted all the
\* same, while the other participant has relays of its own.
C20_Witness ==
    /\ Relayed
    /\ result.reward = 0
    /\ get_relay_count(relay_tracker, result.relayer) > 0
    /\ get_relay_count(relay_tracker, OtherKey(result.relayer)) > 0
    /\ BigLt(MAX_SUPPLY,
             BigAdd(total_rewards(relay_tracker),
                    Big(calculate_reward(get_relay_count(relay_tracker, result.relayer)))))

\* ---- C21 ----
\* The call before this one was made by another participant at the relay
\* count this call is made at.
SameCountAsLastCall ==
    /\ Relayed
    /\ result.relayer # result'.relayer
    /\ get_relay_count(relay_tracker, result.relayer)
           = get_relay_count(relay_tracker', result'.relayer)

\* C21: two participants who call record_relay at the same relay count of
\* their own receive equal rewards, whoever they are and in whatever order
\* their calls arrive.
C21_EqualCountEqualReward ==
    [][SameCountAsLastCall => result'.reward = result.reward]_vars

\* C21, amended: every call returns calculate_reward of the caller's count,
\* or 0 when the supply cap refuses that reward; so two participants calling
\* at the same count receive equal rewards unless the cap refuses one of them.
C21_EqualCountEqualRewardUnlessCapped ==
    [][LET n == get_relay_count(relay_tracker', result'.relayer)
           refused == ExceedsSupply(total_rewards(relay_tracker), calculate_reward(n))
       IN /\ result'.reward = (IF refused THEN 0 ELSE calculate_reward(n))
          /\ (SameCountAsLastCall /\ result.reward # 0 /\ ~refused)
                 => result'.reward = result.reward
      ]_vars

\* Both participants have just called at the same count, past the first
\* halving, and the second was paid the reduced reward.
C21_Witness ==
    /\ Relayed
    /\ get_relay_count(relay_tracker, "K1") = get_relay_count(relay_tracker, "K2")
    /\ get_relay_count(relay_tracker, "K1") >= RELAY_HALVING_INTERVAL
    /\ result.reward = calculate_reward(get_relay_count(relay_tracker, result.relayer))
    /\ result.reward < BASE_RELAY_REWARD

\* ==== calculate_reward as a preview (consensus/relay.rs) ====

\* The first count at which calculate_reward gives nothing.
ZeroRewardCount == BASE_RELAY_REWARD * RELAY_HALVING_INTERVAL

\* The counts previewed: within RelayWindow of each multiple of
\* RELAY_HALVING_INTERVAL up to MaxBlocks, and around the end of the curve.
RewardCounts ==
    {c \in {b * RELAY_HALVING_INTERVAL + d :
               b \in 0..MaxBlocks, d \in (0 - RelayWindow)..RelayWindow} : c >= 0}
    \cup {ZeroRewardCount - RELAY_HALVING_INTERVAL - 1,
          ZeroRewardCount - RELAY_HALVING_INTERVAL,
          ZeroRewardCount - 1, ZeroRewardCount}

\* tracker.calculate_reward(node_relay_count)
CalculateReward(node_relay_count) ==
    /\ result' = [id |-> Zero, err |-> "Ok", count |-> node_relay_count,
                  reward |-> calculate_reward(node_relay_count)]
    /\ UNCHANGED <<vertices, children, tips, genesis_id, relay_tracker, mutex, handlers, walk>>

NextReward == \E node_relay_count \in RewardCounts : CalculateReward(node_relay_count)

SpecReward == InitRelay /\ [][NextReward]_vars

\* ---- C22 ----
Previewed == "count" \in DOMAIN result

\* C22: calculate_reward(count) is BASE_RELAY_REWARD divided, rounding down,
\* by 1 + count / RELAY_HALVING_INTERVAL (rounded down); it is
\* BASE_RELAY_REWARD at 0, half of it at RELAY_HALVING_INTERVAL and a third
\* of it at twice that; a larger count never gives a larger reward; and the
\* call leaves the tracker as it was.
C22_CalculateReward ==
    /\ [](Previewed =>
            /\ result.reward =
                   BASE_RELAY_REWARD \div (1 + (result.count \div RELAY_HALVING_INTERVAL))
            /\ result.count = 0 => result.reward = BASE_RELAY_REWARD
            /\ result.count = RELAY_HALVING_INTERVAL
                   => result.reward = BASE_RELAY_REWARD \div 2
            /\ result.count = 2 * RELAY_HALVING_INTERVAL
                   => result.reward = BASE_RELAY_REWARD \div 3)
    /\ [][/\ relay_tracker' = relay_tracker
          /\ (Previewed /\ result'.count >= result.count)
                 => result'.reward <= result.reward
          /\ (Previewed /\ result'.count <= result.count)
                 => result'.reward >= result.reward]_vars

\* The preview at twice the halving interval gave 333,333 on a tracker that
\* has recorded relays.
C22_Witness ==
    /\ Previewed
    /\ result.count = 2 * RELAY_HALVING_INTERVAL
    /\ result.reward = 333333
    /\ total_relays(relay_tracker) > 0

\* ---- C23 ----
\* The block of RELAY_HALVING_INTERVAL successive calls that a participant's
\* n-th call falls in: calls 1..RELAY_HALVING_INTERVAL are block 0.
CallBlock(n) == (n - 1) \div RELAY_HALVING_INTERVAL

\* C23: for a participant whose reward the supply cap does not refuse, the
\* first RELAY_HALVING_INTERVAL calls each return BASE_RELAY_REWARD, the
\* call after them returns less, and two successive calls of the participant
\* in the same block of RELAY_HALVING_INTERVAL calls return the same reward.
C23_ConstantPerBlockOfCalls ==
    [][LET K == result'.relayer
           n == get_relay_count(relay_tracker', K)
           refused == ExceedsSupply(total_rewards(relay_tracker), calculate_reward(n))
       IN ~refused =>
             /\ n <= RELAY_HALVING_INTERVAL => result'.reward = BASE_RELAY_REWARD
             /\ n = RELAY_HALVING_INTERVAL + 1 => result'.reward < BASE_RELAY_REWARD
             /\ (/\ Relayed
                 /\ result.relayer = K
                 /\ result.reward # 0
                 /\ CallBlock(n - 1) = CallBlock(n))
                    => result'.reward = result.reward
      ]_vars

\* ==== FinalityChecker::get_final_transactions ====
\* The ids come out in the iteration order of a HashMap, each once; the
\* model keeps the set of them.
get_final_transactions(dag) ==
    {id \in transaction_ids(dag) : FinalityChecker_is_final(dag, id)}

\* ---- C24 ----
\* What C24 says of the status of id, with the meaning of weight 1 that it
\* gives left to the caller.
StatusIs(id, pending) ==
    LET status == finality_status(Ledger, id)
        weight == vertices[id].cumulative_weight
    IN /\ status.tag = "Unknown" <=> id \notin Stored
       /\ id \in Stored =>
             /\ status.tag = "Final" <=> weight >= FINALITY_THRESHOLD
             /\ status = [tag |-> "Confirming", weight |-> weight,
                          needed |-> FINALITY_THRESHOLD]
                    <=> (1 < weight /\ weight < FINALITY_THRESHOLD)
             /\ status.tag = "Confirming" => status.weight = weight
             /\ status.tag = "Pending" <=> pending

\* C24: the status of an id is Unknown iff it is not stored, Final iff its
\* stored weight is at least FINALITY_THRESHOLD, Confirming with that weight
\* and needed = FINALITY_THRESHOLD iff the weight is between 1 and the
\* threshold, and Pending iff the weight is 1, which is when no stored
\* vertex descends from it; get_final_transactions gives exactly the stored
\* ids whose status is Final.
C24_FinalityStatus ==
    /\ \A id \in Ids \cup {Zero} :
          StatusIs(id, vertices[id].cumulative_weight = 1 /\ Descendants(id) = {})
    /\ get_final_transactions(Ledger)
           = {id \in Stored : finality_status(Ledger, id).tag = "Final"}

\* The same with Pending read off the stored weight alone.
C24_FinalityStatusByStoredWeight ==
    /\ \A id \in Ids \cup {Zero} : StatusIs(id, vertices[id].cumulative_weight = 1)
    /\ get_final_transactions(Ledger)
           = {id \in Stored : finality_status(Ledger, id).tag = "Final"}

\* ==== the node behind its API (rhiza-node/src/main.rs, api.rs) ====

\* FOUNDER_ALLOCATION = MAX_SUPPLY / 20
FOUNDER_ALLOCATION == <<0, 1050000, 0>>

\* Transaction::founder_allocation
founder_allocation(table, genesis_keypair, founder_pubkey, gid) ==
    TransactionNew(table,
        TransactionData("FounderAllocation", <<gid, gid>>, genesis_keypair,
                        founder_pubkey, FOUNDER_ALLOCATION, BigZero, 0, 1),
        genesis_keypair)

\* NodeState::new
NodeStateNew == [dag |-> DagNew, relay_tracker |-> RelayTrackerNew]

\* initialize_genesis without the test that the ledger is empty.
initialize_genesis_Unguarded(node, founder_pubkey) ==
    LET g == genesis(DigestTable(node.dag), NodeKey)
        r1 == DagInsert(node.dag, DagVertexNew(g, 0))
        founder_tx == founder_allocation(DigestTable(r1.dag), NodeKey,
                                         founder_pubkey, g.id)
        r2 == DagInsert(r1.dag, DagVertexNew(founder_tx, 1))
    IN [node EXCEPT !.dag = r2.dag]

\* NodeState::initialize_genesis, with the key that FOUNDER_PUBLIC_KEY
\* decodes to; both insertions are unwrapped with expect.
initialize_genesis(node, founder_pubkey) ==
    IF DagLen(node.dag) # 0 THEN node
    ELSE LET g == genesis(DigestTable(node.dag), NodeKey)
             r1 == DagInsert(node.dag, DagVertexNew(g, 0))
             founder_tx == founder_allocation(DigestTable(r1.dag), NodeKey,
                                              founder_pubkey, g.id)
             r2 == DagInsert(r1.dag, DagVertexNew(founder_tx, 1))
         IN [node EXCEPT !.dag = r2.dag]

\* claim_relay_reward paying the base reward on top of the computed one.
claim_relay_reward_BasePlus(node, now) ==
    LET relay_count == get_relay_count(node.relay_tracker, NodeKey)
        reward == calculate_reward(relay_count)
        tx == relay_reward(DigestTable(node.dag), NodeKey,
                           Big(BASE_RELAY_REWARD + reward),
                           select_parents(node.dag), DagLen(node.dag), now)
        r == DagInsert(node.dag, DagVertexNew(tx, DagDepth(node.dag) + 1))
    IN IF reward = 0
       THEN [node |-> node, res |-> [err |-> "No reward available"], id |-> Zero]
       ELSE IF r.err # "Ok"
       THEN [node |-> [node EXCEPT !.dag = r.dag], res |-> [err |-> r.err], id |-> tx.id]
       ELSE [node |-> [dag |-> r.dag,
                       relay_tracker |->
                           record_relay(node.relay_tracker, NodeKey).tracker],
             res |-> ValidationOk, id |-> tx.id]

\* NodeState::claim_relay_reward: the node after the call, the call's
\* result and the id of the reward transaction it made.
claim_relay_reward(node, now) ==
    LET relay_count == get_relay_count(node.relay_tracker, NodeKey)
        reward == calculate_reward(relay_count)
        ps == select_parents(node.dag)
        nonce == DagLen(node.dag)
        tx == relay_reward(DigestTable(node.dag), NodeKey, Big(reward), ps, nonce, now)
        depth == DagDepth(node.dag) + 1
        r == DagInsert(node.dag, DagVertexNew(tx, depth))
    IN IF reward = 0
       THEN [node |-> node, res |-> [err |-> "No reward available"], id |-> Zero]
       ELSE IF r.err # "Ok"
       THEN [node |-> [node EXCEPT !.dag = r.dag], res |-> [err |-> r.err], id |-> tx.id]
       ELSE [node |-> [dag |-> r.dag,
                       relay_tracker |->
                           record_relay(node.relay_tracker, NodeKey).tracker],
             res |-> ValidationOk, id |-> tx.id]

\* NodeState::balance
balance(node) == get_balance(node.dag, NodeKey)

\* What get_info reads: the balance first, the rest after it.
InfoRest(node) ==
    [dag_size |-> DagLen(node.dag), dag_depth |-> DagDepth(node.dag),
     total_relays |-> total_relays(node.relay_tracker),
     tips_count |-> Len(node.dag.tips)]

\* ---- the requests ----

Requests == 1..MaxRequests

\* The amounts sent: the founder allocation, that less one base reward, and
\* one base reward.
SendAmounts == {FOUNDER_ALLOCATION, BigSub(FOUNDER_ALLOCATION, FullReward), FullReward}

\* The requests a client can make: the route and, for /send, the decoded
\* body; "invalid" is a recipient_pubkey_hex that does not decode.
RequestKinds ==
    {[route |-> "/send", recipient |-> r, amount |-> a] :
        r \in Keys \cup {"invalid"}, a \in SendAmounts}
    \cup {[route |-> rt, recipient |-> "invalid", amount |-> BigZero] :
             rt \in {"/relay-reward", "/info", "/balance", "/transactions", "/dag/tips"}}

\* Mutex::lock returns once no other request holds the mutex.
CanLock(m) == m = Unlocked

\* The number handed to the next request that takes the mutex.
NextTicket == Cardinality({h \in DOMAIN handlers : handlers[h].ticket > 0}) + 1

\* The first step of a handler once it holds the mutex.
FirstStep(route) ==
    CASE route = "/send" -> "send_validate"
      [] route = "/relay-reward" -> "claim_compute"
      [] route = "/info" -> "info_balance"
      [] OTHER -> "read"

\* The shared node becomes n and the handlers become hs.
ApiBecomes(n, hs) ==
    /\ vertices' = n.dag.vertices
    /\ children' = n.dag.children
    /\ tips' = n.dag.tips
    /\ genesis_id' = n.dag.genesis_id
    /\ relay_tracker' = n.relay_tracker
    /\ handlers' = hs
    /\ UNCHANGED result

\* A request arrives; /send decodes its body before it touches the state
\* and answers 400 when that fails (api.rs:149-152).
Arrive(req) ==
    /\ Len(handlers) < MaxRequests
    /\ handlers' = Append(handlers,
           [req |-> req, ticket |-> 0, seen |-> NodeStateNew, tx |-> [id |-> Zero],
            now |-> 0,
            pc |-> IF req.route = "/send" /\ req.recipient = "invalid"
                   THEN "done" ELSE "lock",
            response |-> IF req.route = "/send" /\ req.recipient = "invalid"
                         THEN [status |-> "BAD_REQUEST", body |-> "Invalid hex"]
                         ELSE [status |-> "none"]])
    /\ UNCHANGED <<vertices, children, tips, genesis_id, relay_tracker, result, mutex, walk>>

\* state.lock().unwrap()
Lock(h) ==
    /\ handlers[h].pc = "lock"
    /\ CanLock(mutex)
    /\ mutex' = h
    /\ handlers' = [handlers EXCEPT ![h].pc = FirstStep(handlers[h].req.route),
                                    ![h].ticket = NextTicket]
    /\ UNCHANGED <<vertices, children, tips, genesis_id, relay_tracker, result, walk>>

\* send, main.rs:125-132: parents, nonce, the transfer and its validation.
SendValidate(h) ==
    /\ handlers[h].pc = "send_validate"
    /\ \E now \in Timestamps :
       LET req == handlers[h].req
           ps == select_parents(Ledger)
           nonce == DagLen(Ledger)
           table == DigestTable(Ledger)
           tx == transfer(table, NodeKey, req.recipient, req.amount, ps, nonce, now)
           v == validate(MapPut(table, tx.id, tx.data), tx, Ledger, FALSE)
       IN handlers' = [handlers EXCEPT
              ![h].seen = NodeState,
              ![h].tx = tx,
              ![h].now = now,
              ![h].pc = IF v.err = "Ok" THEN "send_insert" ELSE "unlock",
              ![h].response = IF v.err = "Ok" THEN @
                              ELSE [status |-> "BAD_REQUEST", body |-> v]]
    /\ UNCHANGED <<vertices, children, tips, genesis_id, relay_tracker, result, mutex, walk>>

\* send, main.rs:134-139: the depth and the insertion.
SendInsert(h) ==
    /\ handlers[h].pc = "send_insert"
    /\ LET tx == handlers[h].tx
           r == DagInsert(Ledger, DagVertexNew(tx, DagDepth(Ledger) + 1))
       IN ApiBecomes([dag |-> r.dag, relay_tracker |-> relay_tracker],
              [handlers EXCEPT
                  ![h].pc = "unlock",
                  ![h].response = IF r.err = "Ok"
                                  THEN [status |-> "OK", body |-> tx.id]
                                  ELSE [status |-> "BAD_REQUEST",
                                        body |-> [err |-> r.err]]])
    /\ UNCHANGED <<mutex, walk>>

\* claim_relay_reward, main.rs:144-154: the reward from the count so far
\* and the reward transaction.
ClaimCompute(h) ==
    /\ handlers[h].pc = "claim_compute"
    /\ \E now \in Timestamps :
       LET relay_count == get_relay_count(relay_tracker, NodeKey)
           reward == calculate_reward(relay_count)
           tx == relay_reward(DigestTable(Ledger), NodeKey, Big(reward),
                              select_parents(Ledger), DagLen(Ledger), now)
       IN handlers' = [handlers EXCEPT
              ![h].seen = NodeState,
              ![h].tx = tx,
              ![h].now = now,
              ![h].pc = IF reward = 0 THEN "unlock" ELSE "claim_insert",
              ![h].response = IF reward = 0
                              THEN [status |-> "BAD_REQUEST",
                                    body |-> [err |-> "No reward available"]]
                              ELSE @]
    /\ UNCHANGED <<vertices, children, tips, genesis_id, relay_tracker, result, mutex, walk>>

\* claim_relay_reward, main.rs:156-159: the insertion.
ClaimInsert(h) ==
    /\ handlers[h].pc = "claim_insert"
    /\ LET tx == handlers[h].tx
           r == DagInsert(Ledger, DagVertexNew(tx, DagDepth(Ledger) + 1))
       IN ApiBecomes([dag |-> r.dag, relay_tracker |-> relay_tracker],
              [handlers EXCEPT
                  ![h].pc = IF r.err = "Ok" THEN "claim_record" ELSE "unlock",
                  ![h].response = IF r.err = "Ok" THEN @
                                  ELSE [status |-> "BAD_REQUEST",
                                        body |-> [err |-> r.err]]])
    /\ UNCHANGED <<mutex, walk>>

\* claim_relay_reward, main.rs:161-163: the relay is recorded.
ClaimRecord(h) ==
    /\ handlers[h].pc = "claim_record"
    /\ ApiBecomes([dag |-> Ledger,
                   relay_tracker |-> record_relay(relay_tracker, NodeKey).tracker],
           [handlers EXCEPT ![h].pc = "unlock",
                            ![h].response = [status |-> "OK",
                                             body |-> handlers[h].tx.id]])
    /\ UNCHANGED <<mutex, walk>>

\* get_info, api.rs:86: the balance.
InfoBalance(h) ==
    /\ handlers[h].pc = "info_balance"
    /\ handlers' = [handlers EXCEPT
           ![h].pc = "info_rest",
           ![h].response = [status |-> "none", balance |-> balance(NodeState)]]
    /\ UNCHANGED <<vertices, children, tips, genesis_id, relay_tracker, result, mutex, walk>>

\* get_info, api.rs:87-96: the other fields.
InfoRestStep(h) ==
    /\ handlers[h].pc = "info_rest"
    /\ handlers' = [handlers EXCEPT
           ![h].pc = "unlock",
           ![h].response = [status |-> "OK",
                            body |-> [balance |-> handlers[h].response.balance,
                                      rest |-> InfoRest(NodeState)]]]
    /\ UNCHANGED <<vertices, children, tips, genesis_id, relay_tracker, result, mutex, walk>>

\* What get_balance, get_transactions and get_tips answer on a node.
ReadBody(route, node) ==
    CASE route = "/balance" -> [balance |-> balance(node)]
      [] route = "/transactions" -> [ids |-> transaction_ids(node.dag)]
      [] OTHER -> [tips |-> node.dag.tips]

\* get_balance, get_transactions, get_tips.
Read(h) ==
    /\ handlers[h].pc = "read"
    /\ handlers' = [handlers EXCEPT
           ![h].pc = "unlock",
           ![h].response = [status |-> "OK",
                            body |-> ReadBody(handlers[h].req.route, NodeState)]]
    /\ UNCHANGED <<vertices, children, tips, genesis_id, relay_tracker, result, mutex, walk>>

\* The handler returns: the guard is dropped and the response goes out.
Unlock(h) ==
    /\ handlers[h].pc = "unlock"
    /\ mutex' = Unlocked
    /\ handlers' = [handlers EXCEPT ![h].pc = "done"]
    /\ UNCHANGED <<vertices, children, tips, genesis_id, relay_tracker, result, walk>>

\* main.rs:228-238: the node is created, initialized and put behind the
\* mutex; FOUNDER_PUBLIC_KEY is the node's own key or another's.
InitApi ==
    \E founder_pubkey \in Keys :
       LET node == initialize_genesis(NodeStateNew, founder_pubkey)
       IN /\ vertices = node.dag.vertices
          /\ children = node.dag.children
          /\ tips = node.dag.tips
          /\ genesis_id = node.dag.genesis_id
          /\ relay_tracker = node.relay_tracker
          /\ result = [id |-> Zero, err |-> "None"]
          /\ mutex = Unlocked
          /\ handlers = <<>>
          /\ walk = NoWalk

NextApi ==
    \/ \E req \in RequestKinds : Arrive(req)
    \/ \E h \in DOMAIN handlers : Lock(h)
    \/ \E h \in DOMAIN handlers : SendValidate(h)
    \/ \E h \in DOMAIN handlers : SendInsert(h)
    \/ \E h \in DOMAIN handlers : ClaimCompute(h)
    \/ \E h \in DOMAIN handlers : ClaimInsert(h)
    \/ \E h \in DOMAIN handlers : ClaimRecord(h)
    \/ \E h \in DOMAIN handlers : InfoBalance(h)
    \/ \E h \in DOMAIN handlers : InfoRestStep(h)
    \/ \E h \in DOMAIN handlers : Read(h)
    \/ \E h \in DOMAIN handlers : Unlock(h)

SpecApi == InitApi /\ [][NextApi]_vars

\* ---- the handlers run one after another ----

\* What a handler does to the node and answers when it runs alone from
\* its lock to its return and its call of the clock returns now.
WholeHandler(node, req, now) ==
    CASE req.route = "/send" ->
           LET s == send(node, req.recipient, req.amount, now)
           IN [node |-> s.node,
               response |-> IF s.res.err = "Ok"
                            THEN [status |-> "OK", body |-> s.id]
                            ELSE [status |-> "BAD_REQUEST", body |-> s.res]]
      [] req.route = "/relay-reward" ->
           LET c == claim_relay_reward(node, now)
           IN [node |-> c.node,
               response |-> IF c.res.err = "Ok"
                            THEN [status |-> "OK", body |-> c.id]
                            ELSE [status |-> "BAD_REQUEST", body |-> c.res]]
      [] req.route = "/info" ->
           [node |-> node,
            response |-> [status |-> "OK",
                          body |-> [balance |-> balance(node), rest |-> InfoRest(node)]]]
      [] OTHER ->
           [node |-> node,
            response |-> [status |-> "OK", body |-> ReadBody(req.route, node)]]

\* ---- C25 ----
\* The key the founder allocation of this run went to.
FounderOfRun ==
    CHOOSE k \in Keys : \E i \in Stored :
        PayloadOf(i).tx_type = "FounderAllocation" /\ PayloadOf(i).recipient = k

\* The request that took the mutex as the t-th.
Holder(t) == CHOOSE h \in DOMAIN handlers : handlers[h].ticket = t

\* The node after the first t holders of the mutex have run one after
\* another, each as a whole, on the initialized node.
RECURSIVE Sequential(_)
Sequential(t) ==
    IF t = 0 THEN initialize_genesis(NodeStateNew, FounderOfRun)
    ELSE WholeHandler(Sequential(t - 1), handlers[Holder(t)].req,
                      handlers[Holder(t)].now).node

InHandler(h) == handlers[h].pc \notin {"lock", "done"}

\* A send that was answered OK.
SendOk(h) ==
    /\ handlers[h].req.route = "/send"
    /\ handlers[h].pc = "done"
    /\ handlers[h].response.status = "OK"

\* A send that paid another key.
PaidOut(h) == SendOk(h) /\ handlers[h].req.recipient # NodeKey

\* Each handler takes the mutex once and holds it for its whole operation.
\* At most one request is inside its handler, and it is the holder; every
\* step inside a handler is the holder's, the ledger a send or a claim
\* inserts into is the one it computed its transaction on, and no request
\* locks twice; every response is the one the handler gives when the
\* holders run one after another in the order of locking, and so is the
\* node once nobody is inside.
HandlersRunAsWholes ==
    /\ [](/\ \A h \in DOMAIN handlers : InHandler(h) <=> mutex = h
          /\ \A h \in DOMAIN handlers :
                (handlers[h].pc = "done" /\ handlers[h].ticket > 0) =>
                    handlers[h].response =
                        WholeHandler(Sequential(handlers[h].ticket - 1),
                                     handlers[h].req, handlers[h].now).response
          /\ mutex = Unlocked => NodeState = Sequential(NextTicket - 1))
    /\ [][\A h \in DOMAIN handlers :
             (handlers'[h] # handlers[h]) =>
                /\ handlers[h].pc # "lock" => mutex = h
                /\ handlers[h].pc \in {"send_insert", "claim_insert"}
                       => NodeState = handlers[h].seen
                /\ handlers[h].ticket > 0 => handlers'[h].ticket = handlers[h].ticket
         ]_vars

\* The balance the send h1 saw covers its amount and that of h2.
CoversBoth(h1, h2) ==
    BigLe(BigAdd(handlers[h1].req.amount, handlers[h2].req.amount),
          balance(handlers[h1].seen))

\* C25: the handlers behave as whole operations run in the order of
\* locking, and two sends from the node key that lock one after the other
\* succeed both only if the balance the first one saw covers both amounts.
C25_HandlersAreSerialized ==
    /\ HandlersRunAsWholes
    /\ [](\A h1, h2 \in DOMAIN handlers :
            (SendOk(h1) /\ SendOk(h2) /\ handlers[h2].ticket = handlers[h1].ticket + 1)
                => CoversBoth(h1, h2))

\* The same with the last clause kept to sends that pay another key.
C25_HandlersAreSerializedPayingOthers ==
    /\ HandlersRunAsWholes
    /\ [](\A h1, h2 \in DOMAIN handlers :
            (PaidOut(h1) /\ PaidOut(h2)
             /\ handlers[h2].ticket = handlers[h1].ticket + 1)
                => CoversBoth(h1, h2))

\* ---- C26 ----
\* C26: validate never panics; and for a properly made Transfer with
\* 0 < amount <= MAX_SUPPLY, stored parents and any 64-bit fee, need is the
\* true sum amount + fee: when that sum exceeds the sender's balance the
\* answer is InsufficientBalance with that need, never Ok.
C26_NoPanicNoWrap ==
    (Queried /\ result.query = "validate") =>
        /\ result.err # "Panic"
        /\ (/\ ValidatedProper("Transfer")
            /\ BigLt(BigZero, result.tx.data.amount)
            /\ BigLe(result.tx.data.amount, MAX_SUPPLY)
            /\ BothParentsStored(result.tx)
            /\ BigLt(get_balance(Ledger, result.tx.data.sender),
                     BigAdd(result.tx.data.amount, result.tx.data.fee)))
           => result.outcome =
                  [err |-> "InsufficientBalance",
                   have |-> get_balance(Ledger, result.tx.data.sender),
                   need |-> BigAdd(result.tx.data.amount, result.tx.data.fee)]

\* The sum wrapped and the transfer was accepted although amount + fee is
\* above the sender's balance.
C26_NeverAcceptedByWrapping ==
    ~(/\ ValidatedProper("Transfer")
      /\ result.err = "Ok"
      /\ BigLt(get_balance(Ledger, result.tx.data.sender),
               BigAdd(result.tx.data.amount, result.tx.data.fee)))

\* ---- C27 ----
\* C27: a successful insert of vertex n raises the cumulative_weight of each
\* stored ancestor of n by exactly one, leaves n at weight 1, and leaves
\* every vertex that is not an ancestor of n as it was.
C27_InsertRaisesAncestorsByOne ==
    [][\A n \in Ids : (result'.err = "Ok" /\ result'.id = n) =>
             /\ vertices'[n].cumulative_weight = 1
             /\ \A v \in Stored :
                   IF n \in Descendants(v)'
                   THEN vertices'[v].cumulative_weight
                            = vertices[v].cumulative_weight + 1
                   ELSE vertices'[v] = vertices[v]
      ]_vars

\* The same where every vertex is reached along one parent edge only: a
\* vertex is raised by the number of parent edges leading to it from n and
\* from the ancestors of n.
EdgesInto(v, n) ==
    Cardinality({<<c, k>> \in (Descendants(v) \cup {v}) \X {1, 2} :
                    /\ (c = n \/ n \in Descendants(c))
                    /\ parents(vertices[c])[k] = v})

C27_InsertRaisesAncestorsPerEdge ==
    [][\A n \in Ids : (result'.err = "Ok" /\ result'.id = n) =>
             /\ vertices'[n].cumulative_weight = 1
             /\ \A v \in Stored :
                   vertices'[v].cumulative_weight
                       = vertices[v].cumulative_weight + EdgesInto(v, n)'
      ]_vars

\* ---- C28 ----
\* C28: calculate_all_weights has an entry for every stored id and no
\* other, and the entry of v is 1 + the number of distinct stored vertices
\* from which v is reachable by parent edges.
C28_AuditorCountsDescendants ==
    LET weights == calculate_all_weights(Ledger)
    IN /\ DOMAIN weights = Stored
       /\ \A v \in Stored : weights[v] = 1 + Cardinality(Descendants(v))

\* A vertex is named as both parents by one descendant and reached along
\* two paths from another, and the auditor counts each of them once where
\* the stored weight does not.
C28_Witness ==
    \E v \in Stored :
       /\ \E c \in Stored : parents(vertices[c]) = <<v, v>>
       /\ \E d \in Stored :
             /\ parents(vertices[d])[1] # parents(vertices[d])[2]
             /\ \A k \in 1..2 :
                   parents(vertices[d])[k] \in Descendants(v) \cup {v}
       /\ calculate_all_weights(Ledger)[v] = 1 + Cardinality(Descendants(v))
       /\ calculate_all_weights(Ledger)[v] < vertices[v].cumulative_weight

\* ---- C29 ----
\* C29: genesis_id stays None until a vertex with two zero parents is
\* inserted, that insertion sets it to the vertex's id, it never changes
\* once set, and no vertex with a non-zero parent sets it.
C29_GenesisIdSetOnceByZeroParents ==
    [][/\ genesis_id # None => genesis_id' = genesis_id
       /\ (genesis_id = None /\ genesis_id' # None) =>
             /\ result'.err = "Ok"
             /\ genesis_id' = result'.id
             /\ parents(vertices'[result'.id]) = <<Zero, Zero>>
       /\ (/\ genesis_id = None
           /\ result'.err = "Ok"
           /\ parents(vertices'[result'.id]) = <<Zero, Zero>>)
             => genesis_id' = result'.id
      ]_vars

\* The same with the zero test on the first parent only, as vertex.rs:95
\* makes it.
C29_GenesisIdSetOnceByZeroFirstParent ==
    [][/\ genesis_id # None => genesis_id' = genesis_id
       /\ (genesis_id = None /\ genesis_id' # None) =>
             /\ result'.err = "Ok"
             /\ genesis_id' = result'.id
             /\ is_zero(parents(vertices'[result'.id])[1])
       /\ (/\ genesis_id = None
           /\ result'.err = "Ok"
           /\ is_zero(parents(vertices'[result'.id])[1]))
             => genesis_id' = result'.id
      ]_vars

\* ---------------------------------------------------------------------------
\* Dag::update_weights followed one loop iteration at a time.
\* ---------------------------------------------------------------------------

\* One iteration of the while loop without the visited test: every popped
\* identifier has its parent list processed.
update_weights_step_NoVisited(vs, stack, visited) ==
    LET id == stack[Len(stack)]
        rest == SubSeq(stack, 1, Len(stack) - 1)
    IN IF ~contains_key(vs, id)
       THEN [vs |-> vs, stack |-> rest, visited |-> visited \cup {id},
             expanded |-> Zero]
       ELSE LET ps == parents(vs[id])
                vs1 == BumpParent(vs, ps[1])
                st1 == PushParent(rest, ps[1])
                vs2 == BumpParent(vs1, ps[2])
                st2 == PushParent(st1, ps[2])
            IN [vs |-> vs2, stack |-> st2, visited |-> visited \cup {id},
                expanded |-> id]

\* One iteration of `while let Some(id) = stack.pop()` (vertex.rs:163-183):
\* the pop, the visited test, and for a stored vertex the loop over its two
\* parents. expanded names the vertex whose parent list was processed, the
\* zero digest when none was.
update_weights_step(vs, stack, visited) ==
    LET id == stack[Len(stack)]
        rest == SubSeq(stack, 1, Len(stack) - 1)
    IN IF id \in visited
       THEN [vs |-> vs, stack |-> rest, visited |-> visited, expanded |-> Zero]
       ELSE IF ~contains_key(vs, id)
            THEN [vs |-> vs, stack |-> rest, visited |-> visited \cup {id},
                  expanded |-> Zero]
            ELSE LET ps == parents(vs[id])
                     vs1 == BumpParent(vs, ps[1])
                     st1 == PushParent(rest, ps[1])
                     vs2 == BumpParent(vs1, ps[2])
                     st2 == PushParent(st1, ps[2])
                 IN [vs |-> vs2, stack |-> st2, visited |-> visited \cup {id},
                     expanded |-> id]

\* How many times the call in progress processed the parent list of v.
Expansions(v) == IF v \in DOMAIN walk.expansions THEN walk.expansions[v] ELSE 0

\* Dag::insert up to the call of update_weights (vertex.rs:72-105): a call
\* that fails returns here; one that succeeds has stored the vertex and
\* enters update_weights with the new identifier on the stack.
BeginInsert(tx, depth) ==
    /\ walk.stack = <<>>
    /\ \E vertex \in {DagVertexNew(tx, depth)} :
       \E r \in {DagInsert(Ledger, vertex)} :
          /\ FailedLinks(r.dag) <= MaxFailedLinks
          /\ children' = r.dag.children
          /\ tips' = r.dag.tips
          /\ genesis_id' = r.dag.genesis_id
          /\ IF r.err = "Ok"
             THEN /\ vertices' = MapPut(vertices, tx.id, vertex)
                  /\ walk' = [id |-> tx.id, stack |-> <<tx.id>>,
                              visited |-> {}, expansions |-> <<>>]
                  /\ UNCHANGED result
             ELSE /\ vertices' = r.dag.vertices
                  /\ walk' = NoWalk
                  /\ result' = [id |-> tx.id, err |-> r.err]
          /\ UNCHANGED <<relay_tracker, mutex, handlers>>

\* One iteration of the loop of update_weights; the iteration that empties
\* the stack ends the loop and Dag::insert returns Ok (vertex.rs:106).
WalkStep ==
    /\ walk.stack # <<>>
    /\ \E s \in {update_weights_step(vertices, walk.stack, walk.visited)} :
          /\ vertices' = s.vs
          /\ walk' = [id |-> walk.id, stack |-> s.stack, visited |-> s.visited,
                      expansions |->
                          IF is_zero(s.expanded) THEN walk.expansions
                          ELSE MapPut(walk.expansions, s.expanded,
                                      Expansions(s.expanded) + 1)]
          /\ result' = IF s.stack = <<>> THEN [id |-> walk.id, err |-> "Ok"]
                       ELSE result
    /\ UNCHANGED <<children, tips, genesis_id, relay_tracker, mutex, handlers>>

NextWeights ==
    \/ \E tx \in Transactions, depth \in DepthsPassed(Ledger) : BeginInsert(tx, depth)
    \/ WalkStep

SpecWeights == Init /\ [][NextWeights]_vars

\* A call that entered the loop keeps running: nothing else executes on the
\* thread until update_weights returns.
SpecWeightsFair == SpecWeights /\ WF_vars(WalkStep)

\* The call that was followed has left the loop.
WalkDone == walk.stack = <<>> /\ ~is_zero(walk.id)

\* C30: weight propagation terminates, and within one call the parent list
\* of each vertex is processed at most once however many paths lead to it.
C30_WalkTerminatesExpandingOnce ==
    /\ [](\A v \in Ids : Expansions(v) <= 1)
    /\ [](Len(walk.stack) <= 1 + 2 * Cardinality(Stored))
    /\ (walk.stack # <<>>) ~> (walk.stack = <<>>)

\* A finished call on a ledger where a vertex other than the new one was
\* pushed by two of its children and had its parent list processed once.
C30_Witness ==
    /\ WalkDone
    /\ \E a \in Stored \ {walk.id} :
          /\ Expansions(a) = 1
          /\ \E b, c \in DOMAIN walk.expansions :
                /\ b # c
                /\ a \in {parents(vertices[b])[1], parents(vertices[b])[2]}
                /\ a \in {parents(vertices[c])[1], parents(vertices[c])[2]}

\* The stepwise call ends in the ledger Dag::insert returns as a whole.
WalkAgreesWithInsert ==
    [][(walk.stack # <<>> /\ walk'.stack = <<>>) =>
         vertices' = update_weights_loop(vertices, walk.stack, walk.visited)]_vars

\* ---------------------------------------------------------------------------
\* The node's calls one after another (rhiza-node/src/main.rs)
\* ---------------------------------------------------------------------------

\* The trackers of a node that has relayed up to a halving boundary, alone
\* or beside participants that brought the issued total close to MAX_SUPPLY.
NodeTrackers == {t \in TrackerStates : get_relay_count(t, OtherKey(NodeKey)) = 0}

\* The payloads submitted to process_transaction of a node whose ledger is
\* dag: transfers of one base reward or of the sender's whole balance,
\* rewards, a second genesis and a second founder allocation, each naming
\* the selected parents, a stored and an unknown parent, or the zero digest
\* before a stored parent; and every stored payload once more.
NodePayloads(dag) ==
    LET ps == select_parents(dag)
        n == DagLen(dag)
        PP == {ps, <<ps[1], UnknownId(dag)>>, <<Zero, ps[1]>>}
    IN UNION {{TransactionData("Transfer", pp, s, r, a, BigZero, 1, n) :
                 pp \in PP, r \in Keys, a \in {FullReward, get_balance(dag, s)}} :
              s \in Keys}
       \cup {TransactionData("RelayReward", pp, s, s, FullReward, BigZero, 1, n) :
                pp \in PP, s \in Keys}
       \cup {TransactionData("Genesis", <<Zero, Zero>>, s, s, BigZero, BigZero, 0, n) :
                s \in Keys}
       \cup {TransactionData("FounderAllocation", <<ps[1], ps[1]>>, s, r,
                             FOUNDER_ALLOCATION, BigZero, 0, n) : s \in Keys, r \in Keys}
       \cup {dag.vertices[i].transaction.data : i \in DOMAIN dag.vertices}

\* The node becomes n; `call` names the method that ran, res is what it
\* returned and id the transaction it was about.
NodeCall(n, call, id, res) ==
    /\ DagLen(n.dag) <= MaxNodeLedger
    /\ vertices' = n.dag.vertices
    /\ children' = n.dag.children
    /\ tips' = n.dag.tips
    /\ genesis_id' = n.dag.genesis_id
    /\ relay_tracker' = n.relay_tracker
    /\ result' = [id |-> id, err |-> res.err, call |-> call, detail |-> res]
    /\ UNCHANGED <<mutex, handlers, walk>>

\* state.initialize_genesis() (main.rs:239), callable again later.
NodeInitializeGenesis(founder_pubkey) ==
    NodeCall(initialize_genesis(NodeState, founder_pubkey), "initialize_genesis",
             Zero, ValidationOk)

\* state.process_transaction(tx)
NodeProcessTransaction(data) ==
    /\ DagLen(Ledger) # 0
    /\ \E sub \in {Submitted(Ledger, data, "none")} :
         \E r \in {process_transaction(NodeState, sub.table, sub.tx, FALSE)} :
            NodeCall(r.node, "process_transaction", sub.tx.id, r.res)

\* state.send(recipient, amount)
NodeSend(recipient, amount) ==
    /\ DagLen(Ledger) # 0
    /\ \E now \in Timestamps :
         \E r \in {send(NodeState, recipient, amount, now)} :
            NodeCall(r.node, "send", r.id, r.res)

\* state.claim_relay_reward(); the result keeps the reward the tracker
\* returned from the record_relay call the claim made.
NodeClaimRelayReward ==
    /\ DagLen(Ledger) # 0
    /\ \E now \in Timestamps :
         \E r \in {claim_relay_reward(NodeState, now)} :
            NodeCall(r.node, "claim_relay_reward", r.id,
                     IF r.res.err = "Ok"
                     THEN [err |-> "Ok",
                           recorded |-> record_relay(relay_tracker, NodeKey).reward]
                     ELSE r.res)

InitNode ==
    /\ vertices = DagNew.vertices
    /\ children = DagNew.children
    /\ tips = DagNew.tips
    /\ genesis_id = DagNew.genesis_id
    /\ relay_tracker \in NodeTrackers
    /\ result = [id |-> Zero, err |-> "None", call |-> "new"]
    /\ mutex = Unlocked
    /\ handlers = <<>>
    /\ walk = NoWalk

NextNode ==
    \/ \E founder_pubkey \in Keys : NodeInitializeGenesis(founder_pubkey)
    \/ \E data \in NodePayloads(Ledger) : NodeProcessTransaction(data)
    \/ \E recipient \in Keys, amount \in {FullReward, balance(NodeState)} :
          NodeSend(recipient, amount)
    \/ NodeClaimRelayReward

SpecNode == InitNode /\ [][NextNode]_vars

\* ---- C31 ----
\* The stored FounderAllocation vertices.
FounderAllocations == {i \in Stored : PayloadOf(i).tx_type = "FounderAllocation"}

\* C31: initialize_genesis on an empty ledger stores the genesis and one
\* FounderAllocation naming the genesis twice, and nothing else; on a
\* non-empty ledger it changes nothing; process_transaction, send and
\* claim_relay_reward never add a FounderAllocation; so the ledger never
\* holds more than one.
C31_FounderAllocationOnlyAtInitialization ==
    /\ [](Cardinality(FounderAllocations) <= 1)
    /\ [][/\ (result'.call = "initialize_genesis" /\ Stored = {}) =>
                /\ Cardinality(Stored') = 2
                /\ genesis_id' \in Stored'
                /\ PayloadOf(genesis_id)'.tx_type = "Genesis"
                /\ \E f \in Stored' \ {genesis_id'} :
                      /\ vertices'[f].transaction.data.tx_type = "FounderAllocation"
                      /\ vertices'[f].transaction.data.parents
                            = <<genesis_id', genesis_id'>>
          /\ (result'.call = "initialize_genesis" /\ Stored # {}) =>
                LedgerUnchanged /\ UNCHANGED relay_tracker
          /\ result'.call # "initialize_genesis" =>
                FounderAllocations' = FounderAllocations]_vars

\* A second FounderAllocation was submitted to process_transaction and
\* refused on a ledger that send or claim_relay_reward had extended.
C31_Witness ==
    /\ result.call = "process_transaction"
    /\ result.err = "NoRule"
    /\ Cardinality(FounderAllocations) = 1
    /\ \E i \in Stored : PayloadOf(i).tx_type = "Transfer"
    /\ \E i \in Stored : PayloadOf(i).tx_type = "RelayReward"

\* ---- C32 ----
\* C32: no stored vertex is reachable from itself along parent edges.
C32_Acyclic == \A v \in Stored : v \notin DescendantsFrom({v}, {})

\* A vertex that went in with a zero first parent, so without a look at its
\* second, has that second parent stored and a child of its own, in a
\* ledger that also holds a vertex naming one parent twice.
C32_Witness ==
    /\ \E v \in Stored :
          /\ parents(vertices[v])[1] = Zero
          /\ parents(vertices[v])[2] \in Stored
          /\ DirectChildren(v) # {}
    /\ \E u \in Stored : parents(vertices[u])[1] = parents(vertices[u])[2]
                          /\ parents(vertices[u])[1] \in Stored

\* ---- C33 ----
\* Stored vertices that name the zero digest in a parent slot.
ZeroParented == {v \in Stored : Zero \in ParentSet(v)}

\* C33: on the ledger of an initialized node exactly one vertex names the
\* zero digest as a parent, the genesis, and every other vertex has both
\* its parents stored.
C33_ReferentialIntegrityOnAdmission ==
    Stored # {} =>
        /\ ZeroParented = {genesis_id}
        /\ \A v \in Stored \ {genesis_id} : ParentSet(v) \subseteq Stored

\* process_transaction refused a transaction for a parent that is not
\* stored, on a ledger to which it had admitted a transaction before.
C33_Witness ==
    /\ result.call = "process_transaction"
    /\ result.err = "ParentNotFound"
    /\ \E v \in Stored : PayloadOf(v).tx_type = "Transfer"

\* ---- C34 ----
\* The validator was asked about a transaction whose id is not stored and
\* answered Ok.
AcceptedNew ==
    /\ Queried
    /\ result.query = "validate"
    /\ result.err = "Ok"
    /\ result.tx.data.tx_type \in TransactionTypes
    /\ ~IsDuplicate(Ledger, result.tx.id)

\* C34: a Genesis, Transfer or RelayReward that validate accepts and whose
\* id is not stored is inserted by Dag::insert on the same ledger with Ok.
C34_AcceptedIsInsertable ==
    AcceptedNew =>
        DagInsert(Ledger, DagVertexNew(result.tx, DagDepth(Ledger) + 1)).err = "Ok"

\* An accepted Transfer naming two stored parents on a ledger of several
\* vertices, which Dag::insert then stores on top of them.
C34_Witness ==
    /\ AcceptedNew
    /\ result.tx.data.tx_type = "Transfer"
    /\ DagLen(Ledger) >= 2
    /\ LET r == DagInsert(Ledger, DagVertexNew(result.tx, DagDepth(Ledger) + 1))
       IN /\ r.err = "Ok"
          /\ r.dag.tips = <<result.tx.id>>

\* ---- C35 ----
\* C35: a process_transaction or send call that returns Err leaves the
\* ledger and the relay tracker as they were.
C35_ErrLeavesNodeUnchanged ==
    [][(result'.call \in {"process_transaction", "send"} /\ result'.err # "Ok") =>
          LedgerUnchanged /\ UNCHANGED relay_tracker]_vars

\* process_transaction validated a replayed transaction and Dag::insert
\* refused it as a duplicate.
C35_Witness ==
    /\ result.call = "process_transaction"
    /\ result.err = "DuplicateTransaction"
    /\ result.id \in Stored

\* ---- C36 ----
\* The sum of get_balance over all keys.
TotalBalance == BigAdd(get_balance(Ledger, "K1"), get_balance(Ledger, "K2"))

\* The step admitted the Transfer n with fee 0 through process_transaction
\* or send.
AdmitsTransfer(n) ==
    /\ result'.call \in {"process_transaction", "send"}
    /\ result'.err = "Ok"
    /\ result'.id = n
    /\ n \notin Stored
    /\ vertices'[n].transaction.data.tx_type = "Transfer"
    /\ vertices'[n].transaction.data.fee = BigZero

\* C36: admitting a Transfer with fee 0 leaves the sum of the balances as
\* it was and raises no balance but the recipient's, also when the sender
\* is the recipient.
C36_TransfersConserveValue ==
    [][\A n \in 1..(MaxNodeLedger + 1) :
          AdmitsTransfer(n) =>
             /\ TotalBalance' = TotalBalance
             /\ \A k \in Keys \ {vertices'[n].transaction.data.recipient} :
                   BigLe(get_balance(Ledger, k)', get_balance(Ledger, k))]_vars

\* ---------------------------------------------------------------------------
\* A node that sends its whole balance, claims and admits rewards
\* ---------------------------------------------------------------------------

\* The node becomes n after `call` returned res about transaction id.
SupplyCall(n, call, id, res) ==
    /\ DagLen(n.dag) <= MaxSupplyLedger
    /\ vertices' = n.dag.vertices
    /\ children' = n.dag.children
    /\ tips' = n.dag.tips
    /\ genesis_id' = n.dag.genesis_id
    /\ relay_tracker' = n.relay_tracker
    /\ result' = [id |-> id, err |-> res.err, call |-> call, detail |-> res]
    /\ UNCHANGED <<mutex, handlers, walk>>

\* state.send(recipient, state.balance())
SendAll(recipient) ==
    \E now \in Timestamps :
       \E r \in {send(NodeState, recipient, balance(NodeState), now)} :
          SupplyCall(r.node, "send", r.id, r.res)

\* state.claim_relay_reward()
ClaimReward ==
    \E now \in Timestamps :
       \E r \in {claim_relay_reward(NodeState, now)} :
          SupplyCall(r.node, "claim_relay_reward", r.id, r.res)

\* state.process_transaction(tx) for a RelayReward that the other key made
\* out to itself.
AdmitReward ==
    \E sub \in {Submitted(Ledger,
                    TransactionData("RelayReward", select_parents(Ledger),
                                    OtherKey(NodeKey), OtherKey(NodeKey), FullReward,
                                    BigZero, 1, DagLen(Ledger)), "none")} :
       \E r \in {process_transaction(NodeState, sub.table, sub.tx, FALSE)} :
          SupplyCall(r.node, "process_transaction", sub.tx.id, r.res)

\* main.rs:228-229: a new node, initialized, with either key as founder.
InitSupply ==
    \E founder_pubkey \in Keys :
       LET node == initialize_genesis(NodeStateNew, founder_pubkey)
       IN /\ vertices = node.dag.vertices
          /\ children = node.dag.children
          /\ tips = node.dag.tips
          /\ genesis_id = node.dag.genesis_id
          /\ relay_tracker = node.relay_tracker
          /\ result = [id |-> Zero, err |-> "Ok", call |-> "initialize_genesis"]
          /\ mutex = Unlocked
          /\ handlers = <<>>
          /\ walk = NoWalk

NextSupply ==
    \/ \E recipient \in Keys : SendAll(recipient)
    \/ ClaimReward
    \/ AdmitReward

SpecSupply == InitSupply /\ [][NextSupply]_vars

\* ---- C37 ----
\* C37: the sum of get_balance over all keys never exceeds MAX_SUPPLY.
C37_BalancesWithinMaxSupply == BigLe(TotalBalance, MAX_SUPPLY)

\* ---- C38 ----
\* C38: the RelayReward a successful claim_relay_reward inserts carries the
\* amount that the record_relay call of the same claim returned, and
\* total_rewards() grows by at least that amount.
C38_ClaimMintsWhatTrackerIssues ==
    [][\A n \in 1..(MaxNodeLedger + 1) :
          (/\ result'.call = "claim_relay_reward"
           /\ result'.err = "Ok"
           /\ result'.id = n) =>
             /\ vertices'[n].transaction.data.amount = Big(result'.detail.recorded)
             /\ BigLe(BigAdd(total_rewards(relay_tracker),
                             vertices'[n].transaction.data.amount),
                      total_rewards(relay_tracker)')]_vars

\* C38 for claims made away from a halving boundary and from the supply cap.
C38_ClaimMintsWhatTrackerIssuesWithinBlock ==
    [][\A n \in 1..(MaxNodeLedger + 1) :
          (/\ result'.call = "claim_relay_reward"
           /\ result'.err = "Ok"
           /\ result'.id = n
           /\ get_relay_count(relay_tracker, NodeKey) \div RELAY_HALVING_INTERVAL
                 = (get_relay_count(relay_tracker, NodeKey) + 1)
                       \div RELAY_HALVING_INTERVAL
           /\ total_rewards(relay_tracker)' # total_rewards(relay_tracker)) =>
             /\ vertices'[n].transaction.data.amount = Big(result'.detail.recorded)
             /\ BigLe(BigAdd(total_rewards(relay_tracker),
                             vertices'[n].transaction.data.amount),
                      total_rewards(relay_tracker)')]_vars

\* ---- C39 ----
\* The step is a successful claim_relay_reward that inserted transaction n.
ClaimInserts(n) ==
    /\ result'.call = "claim_relay_reward"
    /\ result'.err = "Ok"
    /\ result'.id = n
    /\ n \notin Stored

\* C39: the transaction a claim inserts would have been accepted by
\* validate on the ledger as it was just before the insertion.
C39_ClaimedRewardWouldValidate ==
    [][\A n \in 1..(MaxNodeLedger + 1) :
          ClaimInserts(n) =>
             validate(MapPut(DigestTable(Ledger), n, vertices'[n].transaction.data),
                      vertices'[n].transaction, Ledger, FALSE) = ValidationOk]_vars

\* A claim made in the second block of relays stored a reward of half the
\* base reward on a ledger that another call had extended before.
C39_Witness ==
    /\ result.call = "claim_relay_reward"
    /\ result.err = "Ok"
    /\ result.id \in Stored
    /\ PayloadOf(result.id).amount = HalfReward
    /\ DagLen(Ledger) = MaxNodeLedger

====
